---------------------------- MODULE Spec2Model ----------------------------
(***************************************************************************)
(* Model of the interactive session engine of cap-cli (src/tui/):          *)
(* the multi-line input buffer (InputState), the session state (TuiState), *)
(* the key handler (handle_tui_key) and the storage calls it makes.        *)
(*                                                                         *)
(* A Rust String is a sequence of chars; a char is a TLA+ string naming    *)
(* one Unicode scalar value.  Byte offsets are computed from len_utf8, so  *)
(* the char-index <-> byte-index conversions of the source are modelled    *)
(* by what they compute.  Vec indices are 0-based in the source and        *)
(* 1-based here: lines[i] of the source is lines[i + 1] in the model.      *)
(***************************************************************************)
EXTENDS Integers, Sequences, FiniteSets, TLC

VARIABLES
    input,          \* TuiState.input : InputState
    search,         \* TuiState.search : SearchState
    history,        \* TuiState.history (the filtered view)
    all_history,    \* TuiState.all_history (the full history)
    focus,          \* TuiState.focus
    history_index,  \* TuiState.history_index
    db,             \* rows of the memos table, newest first
    calls,          \* storage calls made while handling the last event
    loop,           \* position of run_tui_loop: "running", "quit", "error"
    panicked,       \* TRUE once an operation has panicked
    last,           \* the last operation applied, or the kind of the last event
    event,          \* the last key event delivered to handle_tui_key
    snap,           \* the buffer at the start of the current run of operations
    trace,          \* the operations applied since snap was taken
    term            \* the terminal, its TerminalGuard and the position of run_tui

vars == <<input, search, history, all_history, focus, history_index,
          db, calls, loop, panicked, last, event, snap, trace, term>>

----------------------------------------------------------------------------
(* Bounds of the model.                                                    *)

\* Buffer specification: at most this many lines and chars in the draft.
MaxLines == 3
MaxChars == 3
\* Round-trip runs: at most this many inserts followed by as many backspaces.
MaxRun == 2
\* Arbitrary start states: number of lines, chars per line, cursor fields.
AnyMaxLines == 2
AnyMaxLen == 1
AnyMaxIndex == 2
\* Sticky-column runs: number of lines of the start buffer, moves per run.
StickyMaxLines == 3
StickyMaxMoves == 4
\* Session specification: draft size, query length, submissions per session.
SessMaxLines == 2
SessMaxChars == 1
SessMaxQuery == 1
SessMaxSubmits == 1

\* one operation on a valid buffer: lines, chars per line
EditMaxLines == 3
EditMaxLen == 2

\* the cursor projection: lines, chars per line, wrap width
ProjMaxLines == 2
ProjMaxLen == 2
ProjMaxWidth == 3
PaneMaxWidth == 5
PaneMaxOrigin == 1

\* the search on its own: chars in the query
FilterMaxQuery == 3

----------------------------------------------------------------------------
(* Option<T>: None, or Some(v) as a one-field record.                      *)

None == [none |-> TRUE]
Some(v) == [some |-> v]
is_some(o) == "some" \in DOMAIN o
unwrap_or(o, d) == IF is_some(o) THEN o.some ELSE d

\* usize arithmetic used by the source (values stay far below usize::MAX)
saturating_sub(a, b) == IF a >= b THEN a - b ELSE 0
saturating_add(a, b) == a + b
min(a, b) == IF a <= b THEN a ELSE b

----------------------------------------------------------------------------
(* chars and Strings.                                                      *)

\* 'a' 'b' 'q' '/' are ASCII; U+00E9 is a 2-byte char of width 1; U+4E2D is
\* a 3-byte char of display width 2; U+0301 is a 2-byte combining mark (width 0).
len_utf8(ch) ==
    CASE ch = "U+00E9" -> 2
      [] ch = "U+0301" -> 2
      [] ch = "U+4E2D" -> 3
      [] OTHER -> 1

\* str::len(): the length in bytes
RECURSIVE str_len(_)
str_len(s) == IF s = <<>> THEN 0 ELSE len_utf8(Head(s)) + str_len(Tail(s))

\* byte offset at which the char with (0-based) index k starts
byte_offset(s, k) == str_len(SubSeq(s, 1, k))

is_char_boundary(s, bi) == \E k \in 0..Len(s) : byte_offset(s, k) = bi

char_index_of_byte(s, bi) == CHOOSE k \in 0..Len(s) : byte_offset(s, k) = bi

\* value.char_indices().nth(char_index).map(|(idx, _)| idx).unwrap_or_else(|| value.len())
byte_index_at_char_id(value, char_index) == char_index
byte_index_at_char(value, char_index) ==
    IF char_index = 0 THEN 0
    ELSE IF char_index < Len(value) THEN byte_offset(value, char_index)
    ELSE str_len(value)

\* String::insert(idx, ch); the caller has checked is_char_boundary(s, bi)
String_insert(s, bi, ch) ==
    LET k == char_index_of_byte(s, bi)
    IN  SubSeq(s, 1, k) \o <<ch>> \o SubSeq(s, k + 1, Len(s))

\* &s[bi..]
String_slice_from(s, bi) == SubSeq(s, char_index_of_byte(s, bi) + 1, Len(s))

\* String::truncate(bi)
String_truncate(s, bi) == SubSeq(s, 1, char_index_of_byte(s, bi))

\* String::replace_range(a..b, "")
String_remove_range(s, a, b) ==
    SubSeq(s, 1, char_index_of_byte(s, a)) \o
    SubSeq(s, char_index_of_byte(s, b) + 1, Len(s))

\* Vec::remove(i) and Vec::insert(i, x), 0-based i
Vec_remove(v, i) == SubSeq(v, 1, i) \o SubSeq(v, i + 2, Len(v))
Vec_insert(v, i, x) == SubSeq(v, 1, i) \o <<x>> \o SubSeq(v, i + 1, Len(v))

----------------------------------------------------------------------------
(* InputState and its operations (src/tui/state.rs).  An operation maps an *)
(* InputState to an InputState, or to PANIC where the Rust code would      *)
(* panic (index out of bounds, byte index off a char boundary).            *)

PANIC == [panic |-> TRUE]
is_panic(r) == "panic" \in DOMAIN r

InputCursor_new == [line |-> 0, col |-> 0, preferred_col |-> None]

InputState_new == [lines |-> << <<>> >>, status |-> None, cursor |-> InputCursor_new]

current_line_len(s) ==
    IF s.cursor.line < Len(s.lines) THEN Len(s.lines[s.cursor.line + 1]) ELSE 0

ensure_invariants_skip(s) == s
ensure_invariants(s) ==
    LET s1 == IF s.lines = <<>> THEN [s EXCEPT !.lines = << <<>> >>] ELSE s
        s2 == IF s1.cursor.line >= Len(s1.lines)
              THEN [s1 EXCEPT !.cursor.line = saturating_sub(Len(s1.lines), 1)]
              ELSE s1
        line_len == current_line_len(s2)
    IN  IF s2.cursor.col > line_len THEN [s2 EXCEPT !.cursor.col = line_len] ELSE s2

reset_edit_state(s) == [s EXCEPT !.cursor.preferred_col = None, !.status = None]

insert_char(s0, ch) ==
    LET s == ensure_invariants(s0)
    IN  IF ~(s.cursor.line < Len(s.lines)) THEN PANIC ELSE
        LET line == s.lines[s.cursor.line + 1]
            byte_index == byte_index_at_char(line, s.cursor.col)
        IN  IF ~is_char_boundary(line, byte_index) THEN PANIC ELSE
            reset_edit_state(
                [s EXCEPT !.lines[s.cursor.line + 1] = String_insert(line, byte_index, ch),
                          !.cursor.col = saturating_add(s.cursor.col, 1)])

\* the col > 0 branch of backspace and the col < line_len branch of delete_char:
\* remove the char that starts at byte remove_at, if there is one
remove_char_at(line, remove_at) ==
    LET rest == String_slice_from(line, remove_at)
    IN  IF rest # <<>>
        THEN String_remove_range(line, remove_at, remove_at + len_utf8(Head(rest)))
        ELSE line

backspace_keep_col(s0) ==
    LET s == ensure_invariants(s0)
    IN  IF s.cursor.col > 0 /\ s.cursor.line < Len(s.lines)
        THEN LET line == s.lines[s.cursor.line + 1]
                 remove_at == byte_index_at_char(line, saturating_sub(s.cursor.col, 1))
             IN  reset_edit_state(
                     [s EXCEPT !.lines[s.cursor.line + 1] = remove_char_at(line, remove_at)])
        ELSE s
backspace_len_after_merge(s0) ==
    LET s == ensure_invariants(s0)
    IN  IF s.cursor.col > 0
        THEN IF ~(s.cursor.line < Len(s.lines)) THEN PANIC ELSE
             LET line == s.lines[s.cursor.line + 1]
                 remove_at == byte_index_at_char(line, saturating_sub(s.cursor.col, 1))
             IN  IF ~is_char_boundary(line, remove_at) THEN PANIC ELSE
                 reset_edit_state(
                     [s EXCEPT !.lines[s.cursor.line + 1] = remove_char_at(line, remove_at),
                               !.cursor.col = saturating_sub(s.cursor.col, 1)])
        ELSE IF s.cursor.line > 0
        THEN IF ~(s.cursor.line < Len(s.lines)) THEN PANIC ELSE
             LET current_line == s.lines[s.cursor.line + 1]
                 removed == Vec_remove(s.lines, s.cursor.line)
                 new_line == saturating_sub(s.cursor.line, 1)
             IN  IF ~(new_line < Len(removed)) THEN PANIC ELSE
                 LET prev_len == Len(removed[new_line + 1] \o current_line)
                 IN  reset_edit_state(
                         [s EXCEPT !.lines = [removed EXCEPT ![new_line + 1] = @ \o current_line],
                                   !.cursor.line = new_line,
                                   !.cursor.col = prev_len])
        ELSE s

backspace(s0) ==
    LET s == ensure_invariants(s0)
    IN  IF s.cursor.col > 0
        THEN IF ~(s.cursor.line < Len(s.lines)) THEN PANIC ELSE
             LET line == s.lines[s.cursor.line + 1]
                 remove_at == byte_index_at_char(line, saturating_sub(s.cursor.col, 1))
             IN  IF ~is_char_boundary(line, remove_at) THEN PANIC ELSE
                 reset_edit_state(
                     [s EXCEPT !.lines[s.cursor.line + 1] = remove_char_at(line, remove_at),
                               !.cursor.col = saturating_sub(s.cursor.col, 1)])
        ELSE IF s.cursor.line > 0
        THEN IF ~(s.cursor.line < Len(s.lines)) THEN PANIC ELSE
             LET current_line == s.lines[s.cursor.line + 1]
                 removed == Vec_remove(s.lines, s.cursor.line)
                 new_line == saturating_sub(s.cursor.line, 1)
             IN  IF ~(new_line < Len(removed)) THEN PANIC ELSE
                 LET prev_len == Len(removed[new_line + 1])
                 IN  reset_edit_state(
                         [s EXCEPT !.lines = [removed EXCEPT ![new_line + 1] = @ \o current_line],
                                   !.cursor.line = new_line,
                                   !.cursor.col = prev_len])
        ELSE s

delete_char_no_merge(s0) ==
    LET s == ensure_invariants(s0)
        line_len == current_line_len(s)
    IN  IF s.cursor.col < line_len
        THEN IF ~(s.cursor.line < Len(s.lines)) THEN PANIC ELSE
             LET line == s.lines[s.cursor.line + 1]
                 remove_at == byte_index_at_char(line, s.cursor.col)
             IN  IF ~is_char_boundary(line, remove_at) THEN PANIC ELSE
                 reset_edit_state(
                     [s EXCEPT !.lines[s.cursor.line + 1] = remove_char_at(line, remove_at)])
        ELSE s

delete_char(s0) ==
    LET s == ensure_invariants(s0)
        line_len == current_line_len(s)
    IN  IF s.cursor.col < line_len
        THEN IF ~(s.cursor.line < Len(s.lines)) THEN PANIC ELSE
             LET line == s.lines[s.cursor.line + 1]
                 remove_at == byte_index_at_char(line, s.cursor.col)
             IN  IF ~is_char_boundary(line, remove_at) THEN PANIC ELSE
                 reset_edit_state(
                     [s EXCEPT !.lines[s.cursor.line + 1] = remove_char_at(line, remove_at)])
        ELSE IF s.cursor.line + 1 < Len(s.lines)
        THEN LET next_line == s.lines[s.cursor.line + 2]
                 removed == Vec_remove(s.lines, s.cursor.line + 1)
             IN  IF ~(s.cursor.line < Len(removed)) THEN PANIC ELSE
                 reset_edit_state(
                     [s EXCEPT !.lines = [removed EXCEPT ![s.cursor.line + 1] = @ \o next_line]])
        ELSE s

newline_cursor_stays(s0) ==
    LET s == ensure_invariants(s0)
    IN  IF ~(s.cursor.line < Len(s.lines)) THEN PANIC ELSE
        LET line == s.lines[s.cursor.line + 1]
            split_at == byte_index_at_char(line, s.cursor.col)
        IN  IF ~is_char_boundary(line, split_at) THEN PANIC ELSE
            LET tail == String_slice_from(line, split_at)
                head == String_truncate(line, split_at)
                insert_at == s.cursor.line + 1
            IN  reset_edit_state(
                    [s EXCEPT !.lines = Vec_insert([s.lines EXCEPT ![s.cursor.line + 1] = head],
                                                   insert_at, tail),
                              !.cursor.col = 0])

newline(s0) ==
    LET s == ensure_invariants(s0)
    IN  IF ~(s.cursor.line < Len(s.lines)) THEN PANIC ELSE
        LET line == s.lines[s.cursor.line + 1]
            split_at == byte_index_at_char(line, s.cursor.col)
        IN  IF ~is_char_boundary(line, split_at) THEN PANIC ELSE
            LET tail == String_slice_from(line, split_at)
                head == String_truncate(line, split_at)
                insert_at == s.cursor.line + 1
            IN  reset_edit_state(
                    [s EXCEPT !.lines = Vec_insert([s.lines EXCEPT ![s.cursor.line + 1] = head],
                                                   insert_at, tail),
                              !.cursor.line = insert_at,
                              !.cursor.col = 0])

clear(s) == [lines |-> << <<>> >>, status |-> None, cursor |-> InputCursor_new]

\* lines.join("\n")
RECURSIVE join_lines(_)
join_lines(ls) ==
    IF ls = <<>> THEN <<>>
    ELSE IF Len(ls) = 1 THEN ls[1]
    ELSE ls[1] \o <<"\n">> \o join_lines(Tail(ls))

RECURSIVE concat_lines(_)
concat_lines(ls) == IF ls = <<>> THEN <<>> ELSE Head(ls) \o concat_lines(Tail(ls))

text_unjoined(s) == concat_lines(s.lines)
text(s) == join_lines(s.lines)

is_empty_first_line(s) == s.lines[1] = <<>>
is_empty(s) == Len(s.lines) = 1 /\ s.lines[1] = <<>>

move_left_to_line_start(s0) ==
    LET s == ensure_invariants(s0)
        moved == IF s.cursor.col > 0
                 THEN [s EXCEPT !.cursor.col = saturating_sub(s.cursor.col, 1)]
                 ELSE IF s.cursor.line > 0
                 THEN [s EXCEPT !.cursor.line = saturating_sub(s.cursor.line, 1)]
                 ELSE s
    IN  [moved EXCEPT !.cursor.preferred_col = None]

move_left(s0) ==
    LET s == ensure_invariants(s0)
        moved == IF s.cursor.col > 0
                 THEN [s EXCEPT !.cursor.col = saturating_sub(s.cursor.col, 1)]
                 ELSE IF s.cursor.line > 0
                 THEN LET up == [s EXCEPT !.cursor.line = saturating_sub(s.cursor.line, 1)]
                      IN  [up EXCEPT !.cursor.col = current_line_len(up)]
                 ELSE s
    IN  [moved EXCEPT !.cursor.preferred_col = None]

move_right(s0) ==
    LET s == ensure_invariants(s0)
        line_len == current_line_len(s)
        moved == IF s.cursor.col < line_len
                 THEN [s EXCEPT !.cursor.col = saturating_add(s.cursor.col, 1)]
                 ELSE IF s.cursor.line + 1 < Len(s.lines)
                 THEN [s EXCEPT !.cursor.line = saturating_add(s.cursor.line, 1),
                                !.cursor.col = 0]
                 ELSE s
    IN  [moved EXCEPT !.cursor.preferred_col = None]

move_up_forget(s0) ==
    LET s == ensure_invariants(s0)
    IN  IF s.cursor.line = 0 THEN s
        ELSE LET target_col == s.cursor.col
                 up == [s EXCEPT !.cursor.line = saturating_sub(s.cursor.line, 1)]
             IN  [up EXCEPT !.cursor.col = min(target_col, current_line_len(up)),
                            !.cursor.preferred_col = Some(target_col)]
move_up(s0) ==
    LET s == ensure_invariants(s0)
    IN  IF s.cursor.line = 0 THEN s
        ELSE LET target_col == unwrap_or(s.cursor.preferred_col, s.cursor.col)
                 up == [s EXCEPT !.cursor.line = saturating_sub(s.cursor.line, 1)]
             IN  [up EXCEPT !.cursor.col = min(target_col, current_line_len(up)),
                            !.cursor.preferred_col = Some(target_col)]

move_down(s0) ==
    LET s == ensure_invariants(s0)
    IN  IF s.cursor.line + 1 >= Len(s.lines) THEN s
        ELSE LET target_col == unwrap_or(s.cursor.preferred_col, s.cursor.col)
                 down == [s EXCEPT !.cursor.line = saturating_add(s.cursor.line, 1)]
             IN  [down EXCEPT !.cursor.col = min(target_col, current_line_len(down)),
                              !.cursor.preferred_col = Some(target_col)]

----------------------------------------------------------------------------
(* The buffer on its own: operations applied to an InputState.             *)

\* the chars typed into the buffer: one ASCII char and one 3-byte wide char
BufChars == {"a", "U+4E2D"}

RECURSIVE total_chars(_)
total_chars(ls) == IF ls = <<>> THEN 0 ELSE Len(Head(ls)) + total_chars(Tail(ls))

----------------------------------------------------------------------------
(* The terminal: setup_terminal, TerminalGuard and restore_terminal        *)
(* (src/tui/mod.rs).  A terminal call that can fail is given its outcome:  *)
(* fail_at names the setup call that fails, failed the teardown calls that *)
(* fail.                                                                   *)

Ok == [ok |-> TRUE]
Err(e) == [err |-> e]
is_ok(r) == "ok" \in DOMAIN r

Result_and_swapped(a, b) == IF is_ok(b) THEN a ELSE b

\* Result::and
Result_and(a, b) == IF is_ok(a) THEN b ELSE a

\* the terminal when run_tui is entered: no mode acquired, no guard
TerminalStart ==
    [pc |-> "setup",                \* position of run_tui
     raw |-> FALSE,                 \* raw mode is enabled
     flags |-> FALSE,               \* keyboard enhancement flags are pushed
     screen |-> FALSE,              \* alternate screen and mouse capture are on
     guard |-> "none",              \* the TerminalGuard: "none", "live", "dropped"
     keyboard_enhanced |-> FALSE,   \* TerminalGuard.keyboard_enhanced
     restored |-> FALSE,            \* TerminalGuard.restored
     cleanup |-> <<>>,              \* the teardown calls made so far
     failed |-> {},                 \* the teardown calls that failed
     first_error |-> None,          \* first_error of the last restore_terminal
     restore_result |-> None,       \* restore_result of run_tui
     result |-> None]               \* the value run_tui returned

\* the calls of setup_terminal that can fail, and "none" when none does
SetupCalls ==
    {"none", "enable_raw_mode", "PushKeyboardEnhancementFlags", "EnterAlternateScreen",
     "Terminal::new"}

\* setup_terminal: each call returns early with `?` when it fails
setup_terminal(t, enhanced, fail_at) ==
    IF fail_at = "enable_raw_mode"
    THEN [term |-> t, ret |-> Err(fail_at), keyboard_enhanced |-> FALSE]
    ELSE LET t1 == [t EXCEPT !.raw = TRUE]
         IN  IF enhanced /\ fail_at = "PushKeyboardEnhancementFlags"
             THEN [term |-> t1, ret |-> Err(fail_at), keyboard_enhanced |-> enhanced]
             ELSE LET t2 == [t1 EXCEPT !.flags = enhanced]
                  IN  IF fail_at = "EnterAlternateScreen"
                      THEN [term |-> t2, ret |-> Err(fail_at), keyboard_enhanced |-> enhanced]
                      ELSE LET t3 == [t2 EXCEPT !.screen = TRUE]
                           IN  IF fail_at = "Terminal::new"
                               THEN [term |-> t3, ret |-> Err(fail_at),
                                     keyboard_enhanced |-> enhanced]
                               ELSE [term |-> t3, ret |-> Ok, keyboard_enhanced |-> enhanced]

\* TerminalGuard::new: the guard exists only when setup_terminal returned Ok
TerminalGuard_new(t, enhanced, fail_at) ==
    LET r == setup_terminal(t, enhanced, fail_at)
    IN  IF is_ok(r.ret)
        THEN [term |-> [r.term EXCEPT !.guard = "live",
                                      !.keyboard_enhanced = r.keyboard_enhanced,
                                      !.restored = FALSE],
              ret |-> Ok]
        ELSE [term |-> r.term, ret |-> r.ret]

\* the mode a teardown call gives back when it succeeds
Released(t, call) ==
    CASE call = "disable_raw_mode" -> [t EXCEPT !.raw = FALSE]
      [] call = "PopKeyboardEnhancementFlags" -> [t EXCEPT !.flags = FALSE]
      [] call = "LeaveAlternateScreen" -> [t EXCEPT !.screen = FALSE]
      [] OTHER -> t

\* one teardown call of restore_terminal: its error is kept only when it is the
\* first one
attempt(t, call) ==
    LET made == [t EXCEPT !.cleanup = Append(t.cleanup, call)]
    IN  IF call \in t.failed
        THEN IF ~is_some(made.first_error)
             THEN [made EXCEPT !.first_error = Some(call)]
             ELSE made
        ELSE Released(made, call)

\* a teardown call that is skipped once an earlier one has failed
attempt_or_return(t, call) ==
    IF is_some(t.first_error) THEN t ELSE attempt(t, call)

restore_terminal_return_early(t, keyboard_enhanced, failed) ==
    LET t0 == [t EXCEPT !.failed = failed, !.first_error = None]
        t1 == attempt_or_return(t0, "disable_raw_mode")
        t2 == IF keyboard_enhanced
              THEN attempt_or_return(t1, "PopKeyboardEnhancementFlags") ELSE t1
        t3 == attempt_or_return(t2, "LeaveAlternateScreen")
        t4 == attempt_or_return(t3, "show_cursor")
    IN  [term |-> t4,
         ret |-> IF is_some(t4.first_error) THEN Err(t4.first_error.some) ELSE Ok]

restore_terminal(t, keyboard_enhanced, failed) ==
    LET t0 == [t EXCEPT !.failed = failed, !.first_error = None]
        t1 == attempt(t0, "disable_raw_mode")
        t2 == IF keyboard_enhanced THEN attempt(t1, "PopKeyboardEnhancementFlags") ELSE t1
        t3 == attempt(t2, "LeaveAlternateScreen")
        t4 == attempt(t3, "show_cursor")
    IN  [term |-> t4,
         ret |-> IF is_some(t4.first_error) THEN Err(t4.first_error.some) ELSE Ok]

TerminalGuard_drop_unconditional(t, failed) ==
    [restore_terminal(t, t.keyboard_enhanced, failed).term
         EXCEPT !.restored = TRUE, !.guard = "dropped"]

\* TerminalGuard::restore
TerminalGuard_restore(t, failed) ==
    IF t.restored THEN [term |-> t, ret |-> Ok]
    ELSE restore_terminal([t EXCEPT !.restored = TRUE], t.keyboard_enhanced, failed)

\* Drop for TerminalGuard: the result of restore_terminal is discarded
TerminalGuard_drop(t, failed) ==
    IF t.restored THEN [t EXCEPT !.guard = "dropped"]
    ELSE [restore_terminal(t, t.keyboard_enhanced, failed).term
              EXCEPT !.restored = TRUE, !.guard = "dropped"]

\* the terminal while run_tui_loop runs: every mode acquired, the guard live
TerminalInLoop(enhanced) ==
    [TerminalGuard_new(TerminalStart, enhanced, "none").term EXCEPT !.pc = "loop"]

SessionTerminals == {TerminalInLoop(enhanced) : enhanced \in BOOLEAN}

\* no key event has been delivered
NoEvent == [code |-> [key |-> "none", ch |-> ""], modifiers |-> {}, kind |-> "none"]

\* the state of the session around the buffer, as TuiState::new(vec![]) leaves it
SessionIdle ==
    /\ search = [query |-> <<>>]
    /\ history = <<>>
    /\ all_history = <<>>
    /\ focus = "Input"
    /\ history_index = None
    /\ db = <<>>
    /\ calls = <<>>
    /\ loop = "running"
    /\ event = NoEvent
    /\ term = TerminalInLoop(FALSE)

session_vars ==
    <<search, history, all_history, focus, history_index, db, calls, loop, event, term>>

InitBuffer ==
    /\ input = InputState_new
    /\ panicked = FALSE
    /\ last = "new"
    /\ snap = None
    /\ trace = <<>>
    /\ SessionIdle

\* one operation: its result becomes the buffer, or the program has panicked
Apply(name, r) ==
    /\ ~panicked
    /\ last' = name
    /\ IF is_panic(r)
       THEN panicked' = TRUE /\ input' = input
       ELSE panicked' = FALSE /\ input' = r
    /\ UNCHANGED session_vars

OpInsertChar ==
    /\ trace = <<>>
    /\ total_chars(input.lines) < MaxChars
    /\ \E ch \in BufChars : Apply("insert_char", insert_char(input, ch))
    /\ UNCHANGED <<snap, trace>>

OpBackspace ==
    /\ trace = <<>>
    /\ Apply("backspace", backspace(input))
    /\ UNCHANGED <<snap, trace>>

OpDeleteChar ==
    /\ trace = <<>>
    /\ Apply("delete_char", delete_char(input))
    /\ UNCHANGED <<snap, trace>>

OpNewline ==
    /\ trace = <<>>
    /\ Len(input.lines) < MaxLines
    /\ Apply("newline", newline(input))
    /\ UNCHANGED <<snap, trace>>

OpMoveLeft ==
    /\ trace = <<>>
    /\ Apply("move_left", move_left(input))
    /\ UNCHANGED <<snap, trace>>

OpMoveRight ==
    /\ trace = <<>>
    /\ Apply("move_right", move_right(input))
    /\ UNCHANGED <<snap, trace>>

OpMoveUp ==
    /\ trace = <<>>
    /\ Apply("move_up", move_up(input))
    /\ UNCHANGED <<snap, trace>>

OpMoveDown ==
    /\ trace = <<>>
    /\ Apply("move_down", move_down(input))
    /\ UNCHANGED <<snap, trace>>

OpClear ==
    /\ trace = <<>>
    /\ Apply("clear", clear(input))
    /\ UNCHANGED <<snap, trace>>

NextOps ==
    \/ OpInsertChar
    \/ OpBackspace
    \/ OpDeleteChar
    \/ OpNewline
    \/ OpMoveLeft
    \/ OpMoveRight
    \/ OpMoveUp
    \/ OpMoveDown
    \/ OpClear

\* A round-trip run: n insert_char calls, then n backspace calls.  snap holds
\* the buffer the run started from, trace the calls made so far.
inserts_in(t) == Cardinality({i \in 1..Len(t) : t[i] = "insert_char"})
backspaces_in(t) == Cardinality({i \in 1..Len(t) : t[i] = "backspace"})

RunInsert ==
    /\ backspaces_in(trace) = 0
    /\ Len(trace) < MaxRun
    /\ total_chars(input.lines) < MaxChars + MaxRun
    /\ snap' = IF trace = <<>> THEN Some(input) ELSE snap
    /\ trace' = Append(trace, "insert_char")
    /\ \E ch \in BufChars : Apply("insert_char", insert_char(input, ch))

RunBackspace ==
    /\ trace # <<>>
    /\ backspaces_in(trace) < inserts_in(trace)
    /\ snap' = snap
    /\ trace' = Append(trace, "backspace")
    /\ Apply("backspace", backspace(input))

RunEnd ==
    /\ trace # <<>>
    /\ backspaces_in(trace) = inserts_in(trace)
    /\ ~panicked
    /\ snap' = None
    /\ trace' = <<>>
    /\ last' = "run_end"
    /\ UNCHANGED <<input, panicked>>
    /\ UNCHANGED session_vars

NextBuffer == NextOps \/ RunInsert \/ RunBackspace \/ RunEnd

SpecBuffer == InitBuffer /\ [][NextBuffer]_vars

BufferInvariant(s) ==
    /\ Len(s.lines) >= 1
    /\ s.cursor.line >= 0
    /\ s.cursor.line < Len(s.lines)
    /\ s.cursor.col >= 0
    /\ s.cursor.col <= Len(s.lines[s.cursor.line + 1])

\* C1: after every operation applied to a fresh buffer, the buffer has at least
\* one line, 0 <= cursor.line < number of lines and 0 <= cursor.col <= the char
\* count of the cursor's line (and the operation has completed).
C1_CursorInBounds == ~panicked /\ BufferInvariant(input)

\* C1 witness: a three-line draft holding a multi-byte char, reached by a
\* backspace that left the cursor inside a line.
C1_Witness ==
    /\ last = "backspace"
    /\ Len(input.lines) = 3
    /\ \E i \in 1..3 : \E j \in 1..Len(input.lines[i]) : input.lines[i][j] = "U+4E2D"
    /\ input.cursor.line = 1
    /\ input.cursor.col = 1

\* C3: n insert_char calls followed by n backspace calls give back the lines
\* and the cursor (line, col) the run started from.
C3_RoundTrip ==
    (trace # <<>> /\ backspaces_in(trace) = inserts_in(trace))
        => /\ ~panicked
           /\ input.lines = snap.some.lines
           /\ input.cursor.line = snap.some.cursor.line
           /\ input.cursor.col = snap.some.cursor.col

\* C3 witness: a completed run of two inserts and two backspaces that started
\* inside a line of a two-line draft, after a multi-byte char.
C3_Witness ==
    /\ trace = <<"insert_char", "insert_char", "backspace", "backspace">>
    /\ Len(snap.some.lines) = 2
    /\ snap.some.cursor = [line |-> 1, col |-> 1, preferred_col |-> None]
    /\ snap.some.lines[2] = <<"U+4E2D", "a">>
    /\ input.lines = snap.some.lines

NonVerticalOps ==
    {"insert_char", "backspace", "delete_char", "newline", "move_left", "move_right"}

\* C5: after insert_char, backspace, delete_char, newline, move_left or
\* move_right the preferred column is unset, wherever the cursor was.
C5_PreferredCleared ==
    (last \in NonVerticalOps /\ ~panicked) => input.cursor.preferred_col = None

----------------------------------------------------------------------------
(* One operation applied to an arbitrary InputState, valid or not.         *)

RECURSIVE SeqsUpTo(_, _)
SeqsUpTo(S, n) ==
    IF n = 0 THEN {<<>>}
    ELSE LET shorter == SeqsUpTo(S, n - 1)
         IN  shorter \cup {Append(q, x) : q \in shorter, x \in S}

AnyStrings == SeqsUpTo(BufChars, AnyMaxLen)
AnyOptions == {None} \cup {Some(k) : k \in 0..AnyMaxIndex}

InitAny ==
    /\ \E ls \in SeqsUpTo(AnyStrings, AnyMaxLines) :
       \E l \in 0..AnyMaxIndex, c \in 0..AnyMaxIndex :
       \E p \in AnyOptions, st \in {None, Some(<<"m">>)} :
           input = [lines |-> ls, status |-> st,
                    cursor |-> [line |-> l, col |-> c, preferred_col |-> p]]
    /\ snap = Some(input)
    /\ panicked = FALSE
    /\ last = "new"
    /\ trace = <<>>
    /\ SessionIdle

NextAny == last = "new" /\ NextOps

SpecAny == InitAny /\ [][NextAny]_vars

\* C2: every mutating operation, started from any InputState, completes
\* without panicking and leaves a buffer that satisfies the invariants.
C2_Total == last # "new" => (~panicked /\ BufferInvariant(input))

\* C2 witness: newline has run on a buffer that had no line at all and a cursor
\* far out of range.
C2_Witness ==
    /\ last = "newline"
    /\ snap.some.lines = <<>>
    /\ snap.some.cursor.line = AnyMaxIndex
    /\ snap.some.cursor.col = AnyMaxIndex
    /\ BufferInvariant(input)

----------------------------------------------------------------------------
(* Runs of move_up / move_down from a buffer with no preferred column.     *)

Hi == <<"h", "i">>
Hello == <<"h", "e", "l", "l", "o">>
StickyWords == {<<>>, Hi, Hello}

InitSticky ==
    /\ \E n \in 1..StickyMaxLines :
       \E ls \in [1..n -> StickyWords] :
       \E l \in 0..(n - 1) :
       \E c \in 0..Len(ls[l + 1]) :
           input = [lines |-> ls, status |-> None,
                    cursor |-> [line |-> l, col |-> c, preferred_col |-> None]]
    /\ snap = Some(input)
    /\ panicked = FALSE
    /\ last = "new"
    /\ trace = <<>>
    /\ SessionIdle

StickyUp ==
    /\ Len(trace) < StickyMaxMoves
    /\ trace' = Append(trace, "move_up")
    /\ snap' = snap
    /\ Apply("move_up", move_up(input))

StickyDown ==
    /\ Len(trace) < StickyMaxMoves
    /\ trace' = Append(trace, "move_down")
    /\ snap' = snap
    /\ Apply("move_down", move_down(input))

NextSticky == StickyUp \/ StickyDown

SpecSticky == InitSticky /\ [][NextSticky]_vars

\* C4: in a run of move_up / move_down that starts with no preferred column at
\* column c0, after each move the cursor column is min(c0, length of the line
\* the cursor is on); in ["hello","hi","hello"] from (0,5), down, down, up, up
\* ends at (0,5).
C4_StickyColumn ==
    /\ ~panicked
    /\ trace # <<>> =>
           input.cursor.col = min(snap.some.cursor.col, current_line_len(input))
    /\ ( /\ snap.some.lines = <<Hello, Hi, Hello>>
         /\ snap.some.cursor = [line |-> 0, col |-> 5, preferred_col |-> None]
         /\ trace = <<"move_down", "move_down", "move_up", "move_up">> )
           => (input.cursor.line = 0 /\ input.cursor.col = 5)

\* C4 witness: the run of the example, after its four moves.
C4_Witness ==
    /\ snap.some.lines = <<Hello, Hi, Hello>>
    /\ snap.some.cursor = [line |-> 0, col |-> 5, preferred_col |-> None]
    /\ trace = <<"move_down", "move_down", "move_up", "move_up">>
    /\ input.cursor.line = 0
    /\ input.cursor.col = 5
    /\ input.cursor.preferred_col = Some(5)

----------------------------------------------------------------------------
(* TuiState (src/tui/state.rs).  A TuiState is a record of its fields; a   *)
(* history entry is a pair <<created_at, content>>.                        *)

\* char::to_lowercase on the chars of the model
char_to_lowercase(ch) ==
    CASE ch = "A" -> "a"
      [] ch = "B" -> "b"
      [] ch = "C" -> "c"
      [] ch = "Q" -> "q"
      [] ch = "T" -> "t"
      [] OTHER -> ch

\* str::to_lowercase
to_lowercase_id(str) == str
to_lowercase(str) == [i \in 1..Len(str) |-> char_to_lowercase(str[i])]

\* str::contains(&needle)
contains(hay, needle) ==
    \E i \in 0..(Len(hay) - Len(needle)) : SubSeq(hay, i + 1, i + Len(needle)) = needle

RECURSIVE filter_history(_, _)
filter_history(entries, needle) ==
    IF entries = <<>> THEN <<>>
    ELSE LET created_at == Head(entries)[1]
             content == Head(entries)[2]
             rest == filter_history(Tail(entries), needle)
         IN  IF \/ contains(to_lowercase(content), needle)
                \/ contains(to_lowercase(created_at), needle)
             THEN <<Head(entries)>> \o rest
             ELSE rest

first_history_index(st) == IF st.history = <<>> THEN None ELSE Some(0)

apply_search_keep_selection(st) ==
    LET filtered == IF st.search.query = <<>>
                    THEN st.all_history
                    ELSE filter_history(st.all_history, to_lowercase(st.search.query))
        st1 == [st EXCEPT !.history = filtered]
    IN  IF is_some(st.history_index) /\ st.history_index.some < Len(filtered)
        THEN st1
        ELSE [st1 EXCEPT !.history_index = first_history_index(st1)]
apply_search_overwrite_full(st) ==
    LET filtered == IF st.search.query = <<>>
                    THEN st.all_history
                    ELSE filter_history(st.all_history, to_lowercase(st.search.query))
        st1 == [st EXCEPT !.history = filtered, !.all_history = filtered]
    IN  [st1 EXCEPT !.history_index = first_history_index(st1)]
apply_search(st) ==
    LET filtered == IF st.search.query = <<>>
                    THEN st.all_history
                    ELSE filter_history(st.all_history, to_lowercase(st.search.query))
        st1 == [st EXCEPT !.history = filtered]
    IN  [st1 EXCEPT !.history_index = first_history_index(st1)]

TuiState_new(hist) ==
    apply_search([search |-> [query |-> <<>>],
                  input |-> InputState_new,
                  history |-> <<>>,
                  all_history |-> hist,
                  focus |-> "Input",
                  history_index |-> None])

toggle_focus_home(st) == [st EXCEPT !.focus = IF st.focus = "Input" THEN "History" ELSE "Input"]
toggle_focus(st) ==
    [st EXCEPT !.focus = CASE st.focus = "Search" -> "History"
                           [] st.focus = "History" -> "Input"
                           [] st.focus = "Input" -> "History"]

\* SearchState::insert_char / backspace / clear
SearchState_insert_char(q, ch) == [q EXCEPT !.query = Append(q.query, ch)]
SearchState_backspace(q) ==
    [q EXCEPT !.query = IF q.query = <<>> THEN <<>> ELSE SubSeq(q.query, 1, Len(q.query) - 1)]
SearchState_clear(q) == [q EXCEPT !.query = <<>>]

activate_search(st) ==
    apply_search([st EXCEPT !.focus = "Search", !.search = SearchState_clear(st.search)])

set_history_stale(st, hist) == [st EXCEPT !.all_history = hist]
set_history(st, hist) == apply_search([st EXCEPT !.all_history = hist])

move_history_selection_up_wrap(st) ==
    IF ~is_some(st.history_index)
    THEN [st EXCEPT !.history_index = first_history_index(st)]
    ELSE IF st.history_index.some > 0
    THEN [st EXCEPT !.history_index = Some(st.history_index.some - 1)]
    ELSE [st EXCEPT !.history_index = Some(saturating_sub(Len(st.history), 1))]
move_history_selection_up(st) ==
    IF ~is_some(st.history_index)
    THEN [st EXCEPT !.history_index = first_history_index(st)]
    ELSE IF st.history_index.some > 0
    THEN [st EXCEPT !.history_index = Some(st.history_index.some - 1)]
    ELSE st

move_history_selection_down_unclamped(st) ==
    IF ~is_some(st.history_index)
    THEN [st EXCEPT !.history_index = first_history_index(st)]
    ELSE [st EXCEPT !.history_index = Some(st.history_index.some + 1)]
move_history_selection_down(st) ==
    IF ~is_some(st.history_index)
    THEN [st EXCEPT !.history_index = first_history_index(st)]
    ELSE LET max_index == saturating_sub(Len(st.history), 1)
         IN  IF st.history_index.some < max_index
             THEN [st EXCEPT !.history_index = Some(st.history_index.some + 1)]
             ELSE st

----------------------------------------------------------------------------
(* Storage (src/db/memo_repo.rs).  db holds the rows of the memos table,   *)
(* newest first; whether a call fails is the environment's choice.         *)

\* Local::now().to_rfc3339() of the n-th row
now(n) == <<"t", ToString(n)>>

\* add_memo: one INSERT; on failure no row is stored
add_memo(dbv, content, ok) ==
    IF ok
    THEN [ok |-> TRUE,
          db |-> <<[created_at |-> now(Len(dbv) + 1), content |-> content]>> \o dbv]
    ELSE [ok |-> FALSE, db |-> dbv]

\* fetch_memos(db, None): every row, ORDER BY created_at DESC
fetch_memos(dbv, ok) ==
    IF ok
    THEN [ok |-> TRUE,
          memos |-> [i \in 1..Len(dbv) |-> <<dbv[i].created_at, dbv[i].content>>]]
    ELSE [ok |-> FALSE, memos |-> <<>>]

\* the record of one storage call in calls
AddCall(content, ok) == [fn |-> "add_memo", content |-> content, ok |-> ok, memos |-> <<>>]
FetchCall(r) == [fn |-> "fetch_memos", content |-> <<>>, ok |-> r.ok, memos |-> r.memos]

----------------------------------------------------------------------------
(* Key handling (src/tui/handler.rs).  A handler result is a record        *)
(* [state, db, calls, ret], ret being "Ok(false)", "Ok(true)", "Err" or    *)
(* "panic".                                                                *)

Code(k) == [key |-> k, ch |-> ""]
Char(c) == [key |-> "Char", ch |-> c]
Action(a) == [action |-> a, ch |-> ""]
InsertCharAction(c) == [action |-> "InsertChar", ch |-> c]

is_submit_key_any_modifier(code, modifiers) ==
    code \in {Code("Enter"), Char("\n"), Char("\r"), Char("m"), Char("j")}
is_submit_key(code, modifiers) ==
    IF "CONTROL" \notin modifiers THEN FALSE
    ELSE code \in {Code("Enter"), Char("\n"), Char("\r"), Char("m"), Char("j")}

is_newline_key(code) == code \in {Code("Enter"), Char("\n"), Char("\r")}

key_to_action_quit_any_focus(key, fcs) ==
    LET code == key.code
        modifiers == key.modifiers
    IN  IF (code = Char("c") /\ modifiers = {"CONTROL"}) \/ code = Code("Esc")
        THEN Some(Action("Quit"))
        ELSE IF code \in {Char("q"), Char("Q")}
        THEN Some(Action("Quit"))
        ELSE IF code = Code("Tab")
        THEN Some(Action("ToggleFocus"))
        ELSE IF fcs = "History" /\ code = Char("/")
        THEN Some(Action("ActivateSearch"))
        ELSE IF is_submit_key(code, modifiers)
        THEN Some(Action("SubmitInput"))
        ELSE IF is_newline_key(code)
        THEN Some(Action("InsertNewline"))
        ELSE IF code = Code("Up") THEN Some(Action("MoveUp"))
        ELSE IF code = Code("Down") THEN Some(Action("MoveDown"))
        ELSE IF code = Code("Left") THEN Some(Action("MoveLeft"))
        ELSE IF code = Code("Right") THEN Some(Action("MoveRight"))
        ELSE IF code = Char("k") /\ fcs = "History" THEN Some(Action("MoveUp"))
        ELSE IF code = Char("j") /\ fcs = "History" THEN Some(Action("MoveDown"))
        ELSE IF code = Code("Backspace") THEN Some(Action("Backspace"))
        ELSE IF code = Code("Delete") /\ fcs = "Input" THEN Some(Action("Delete"))
        ELSE IF code.key = "Char"
        THEN IF fcs = "History" THEN None ELSE Some(InsertCharAction(code.ch))
        ELSE None

key_to_action_chars_any_focus(key, fcs) ==
    LET code == key.code
        modifiers == key.modifiers
    IN  IF (code = Char("c") /\ modifiers = {"CONTROL"}) \/ code = Code("Esc")
        THEN Some(Action("Quit"))
        ELSE IF fcs = "History" /\ code \in {Char("q"), Char("Q")}
        THEN Some(Action("Quit"))
        ELSE IF code = Code("Tab")
        THEN Some(Action("ToggleFocus"))
        ELSE IF fcs = "History" /\ code = Char("/")
        THEN Some(Action("ActivateSearch"))
        ELSE IF is_submit_key(code, modifiers)
        THEN Some(Action("SubmitInput"))
        ELSE IF is_newline_key(code)
        THEN Some(Action("InsertNewline"))
        ELSE IF code = Code("Up") THEN Some(Action("MoveUp"))
        ELSE IF code = Code("Down") THEN Some(Action("MoveDown"))
        ELSE IF code = Code("Left") THEN Some(Action("MoveLeft"))
        ELSE IF code = Code("Right") THEN Some(Action("MoveRight"))
        ELSE IF code = Char("k") /\ fcs = "History" THEN Some(Action("MoveUp"))
        ELSE IF code = Char("j") /\ fcs = "History" THEN Some(Action("MoveDown"))
        ELSE IF code = Code("Backspace") THEN Some(Action("Backspace"))
        ELSE IF code = Code("Delete") /\ fcs = "Input" THEN Some(Action("Delete"))
        ELSE IF code.key = "Char"
        THEN Some(InsertCharAction(code.ch))
        ELSE None

key_to_action(key, fcs) ==
    LET code == key.code
        modifiers == key.modifiers
    IN  IF (code = Char("c") /\ modifiers = {"CONTROL"}) \/ code = Code("Esc")
        THEN Some(Action("Quit"))
        ELSE IF fcs = "History" /\ code \in {Char("q"), Char("Q")}
        THEN Some(Action("Quit"))
        ELSE IF code = Code("Tab")
        THEN Some(Action("ToggleFocus"))
        ELSE IF fcs = "History" /\ code = Char("/")
        THEN Some(Action("ActivateSearch"))
        ELSE IF is_submit_key(code, modifiers)
        THEN Some(Action("SubmitInput"))
        ELSE IF is_newline_key(code)
        THEN Some(Action("InsertNewline"))
        ELSE IF code = Code("Up") THEN Some(Action("MoveUp"))
        ELSE IF code = Code("Down") THEN Some(Action("MoveDown"))
        ELSE IF code = Code("Left") THEN Some(Action("MoveLeft"))
        ELSE IF code = Code("Right") THEN Some(Action("MoveRight"))
        ELSE IF code = Char("k") /\ fcs = "History" THEN Some(Action("MoveUp"))
        ELSE IF code = Char("j") /\ fcs = "History" THEN Some(Action("MoveDown"))
        ELSE IF code = Code("Backspace") THEN Some(Action("Backspace"))
        ELSE IF code = Code("Delete") /\ fcs = "Input" THEN Some(Action("Delete"))
        ELSE IF code.key = "Char"
        THEN IF fcs = "History" THEN None ELSE Some(InsertCharAction(code.ch))
        ELSE None

Done(st, dbv, cs, ret) == [state |-> st, db |-> dbv, calls |-> cs, ret |-> ret]

\* the outcome of a call on state.input: the new state, or a panic
WithInput(st, dbv, r) ==
    IF is_panic(r) THEN Done(st, dbv, <<>>, "panic")
    ELSE Done([st EXCEPT !.input = r], dbv, <<>>, "Ok(false)")

\* refresh_history: [ok, state, call]
refresh_history_to_history(dbv, st, fetch_ok) ==
    LET r == fetch_memos(dbv, fetch_ok)
    IN  IF ~r.ok THEN [ok |-> FALSE, state |-> st, call |-> FetchCall(r)]
        ELSE [ok |-> TRUE, state |-> [set_history(st, r.memos) EXCEPT !.focus = "History"],
              call |-> FetchCall(r)]
refresh_history_blank(dbv, st, fetch_ok) ==
    LET r == fetch_memos(dbv, fetch_ok)
    IN  [ok |-> r.ok, state |-> set_history(st, r.memos), call |-> FetchCall(r)]
refresh_history(dbv, st, fetch_ok) ==
    LET r == fetch_memos(dbv, fetch_ok)
    IN  IF ~r.ok THEN [ok |-> FALSE, state |-> st, call |-> FetchCall(r)]
        ELSE [ok |-> TRUE, state |-> set_history(st, r.memos), call |-> FetchCall(r)]

insert_newline_any_focus(st, dbv) == WithInput(st, dbv, newline(st.input))
insert_newline_if_input_focus(st, dbv) ==
    IF st.focus = "Input" THEN WithInput(st, dbv, newline(st.input))
    ELSE Done(st, dbv, <<>>, "Ok(false)")

submit_input_clear_first(dbv, st, add_ok, fetch_ok) ==
    IF st.focus # "Input" \/ is_empty(st.input) THEN Done(st, dbv, <<>>, "Ok(false)")
    ELSE LET content == text(st.input)
             cleared == [st EXCEPT !.input = clear(st.input)]
             added == add_memo(dbv, content, add_ok)
         IN  IF ~added.ok
             THEN Done(cleared, added.db, <<AddCall(content, FALSE)>>, "Err")
             ELSE LET refreshed == refresh_history(added.db, cleared, fetch_ok)
                  IN  Done(refreshed.state, added.db,
                           <<AddCall(content, TRUE), refreshed.call>>,
                           IF refreshed.ok THEN "Ok(false)" ELSE "Err")
submit_input_unguarded(dbv, st, add_ok, fetch_ok) ==
    IF st.focus # "Input" THEN Done(st, dbv, <<>>, "Ok(false)")
    ELSE LET content == text(st.input)
             added == add_memo(dbv, content, add_ok)
         IN  IF ~added.ok
             THEN Done(st, added.db, <<AddCall(content, FALSE)>>, "Err")
             ELSE LET refreshed == refresh_history(added.db, st, fetch_ok)
                  IN  IF ~refreshed.ok
                      THEN Done(refreshed.state, added.db,
                                <<AddCall(content, TRUE), refreshed.call>>, "Err")
                      ELSE Done([refreshed.state EXCEPT !.input = clear(@)], added.db,
                                <<AddCall(content, TRUE), refreshed.call>>, "Ok(false)")
submit_input_if_ready(dbv, st, add_ok, fetch_ok) ==
    IF st.focus # "Input" THEN Done(st, dbv, <<>>, "Ok(false)")
    ELSE IF is_empty(st.input) THEN Done(st, dbv, <<>>, "Ok(false)")
    ELSE LET content == text(st.input)
             added == add_memo(dbv, content, add_ok)
         IN  IF ~added.ok
             THEN Done(st, added.db, <<AddCall(content, FALSE)>>, "Err")
             ELSE LET refreshed == refresh_history(added.db, st, fetch_ok)
                  IN  IF ~refreshed.ok
                      THEN Done(refreshed.state, added.db,
                                <<AddCall(content, TRUE), refreshed.call>>, "Err")
                      ELSE Done([refreshed.state EXCEPT !.input = clear(@)], added.db,
                                <<AddCall(content, TRUE), refreshed.call>>, "Ok(false)")

apply_action(dbv, st, action, add_ok, fetch_ok) ==
    CASE action.action = "Quit" -> Done(st, dbv, <<>>, "Ok(true)")
      [] action.action = "ToggleFocus" -> Done(toggle_focus(st), dbv, <<>>, "Ok(false)")
      [] action.action = "ActivateSearch" -> Done(activate_search(st), dbv, <<>>, "Ok(false)")
      [] action.action = "SubmitInput" -> submit_input_if_ready(dbv, st, add_ok, fetch_ok)
      [] action.action = "InsertNewline" -> insert_newline_if_input_focus(st, dbv)
      [] action.action = "MoveUp" ->
             (CASE st.focus = "History" ->
                       Done(move_history_selection_up(st), dbv, <<>>, "Ok(false)")
                [] st.focus = "Input" -> WithInput(st, dbv, move_up(st.input))
                [] st.focus = "Search" -> Done(st, dbv, <<>>, "Ok(false)"))
      [] action.action = "MoveDown" ->
             (CASE st.focus = "History" ->
                       Done(move_history_selection_down(st), dbv, <<>>, "Ok(false)")
                [] st.focus = "Input" -> WithInput(st, dbv, move_down(st.input))
                [] st.focus = "Search" -> Done(st, dbv, <<>>, "Ok(false)"))
      [] action.action = "MoveLeft" ->
             IF st.focus = "Input" THEN WithInput(st, dbv, move_left(st.input))
             ELSE Done(st, dbv, <<>>, "Ok(false)")
      [] action.action = "MoveRight" ->
             IF st.focus = "Input" THEN WithInput(st, dbv, move_right(st.input))
             ELSE Done(st, dbv, <<>>, "Ok(false)")
      [] action.action = "Backspace" ->
             (CASE st.focus = "Input" -> WithInput(st, dbv, backspace(st.input))
                [] st.focus = "Search" ->
                       Done(apply_search([st EXCEPT !.search = SearchState_backspace(@)]),
                            dbv, <<>>, "Ok(false)")
                [] st.focus = "History" -> Done(st, dbv, <<>>, "Ok(false)"))
      [] action.action = "Delete" ->
             IF st.focus = "Input" THEN WithInput(st, dbv, delete_char(st.input))
             ELSE Done(st, dbv, <<>>, "Ok(false)")
      [] action.action = "InsertChar" ->
             (CASE st.focus = "Input" -> WithInput(st, dbv, insert_char(st.input, action.ch))
                [] st.focus = "Search" ->
                       Done(apply_search(
                                [st EXCEPT !.search = SearchState_insert_char(@, action.ch)]),
                            dbv, <<>>, "Ok(false)")
                [] st.focus = "History" -> Done(st, dbv, <<>>, "Ok(false)"))

handle_tui_key_all_kinds(dbv, st, key, add_ok, fetch_ok) ==
    LET action == key_to_action(key, st.focus)
    IN  IF is_some(action) THEN apply_action(dbv, st, action.some, add_ok, fetch_ok)
        ELSE Done(st, dbv, <<>>, "Ok(false)")

handle_tui_key_unmapped_stops(dbv, st, key, add_ok, fetch_ok) ==
    IF key.kind = "Release" THEN Done(st, dbv, <<>>, "Ok(false)")
    ELSE LET action == key_to_action(key, st.focus)
         IN  IF is_some(action) THEN apply_action(dbv, st, action.some, add_ok, fetch_ok)
             ELSE Done(st, dbv, <<>>, "Ok(true)")

handle_tui_key(dbv, st, key, add_ok, fetch_ok) ==
    IF key.kind = "Release" THEN Done(st, dbv, <<>>, "Ok(false)")
    ELSE LET action == key_to_action(key, st.focus)
         IN  IF is_some(action) THEN apply_action(dbv, st, action.some, add_ok, fetch_ok)
             ELSE Done(st, dbv, <<>>, "Ok(false)")

----------------------------------------------------------------------------
(* The session: run_tui_loop (src/tui/mod.rs) delivering events to         *)
(* handle_tui_key.  Init is the state after TuiState::new(fetch_memos()).  *)

\* the chars and keys the user types in the session
SessionChars == {"q", "/"}

Press(code, modifiers) == [code |-> code, modifiers |-> modifiers, kind |-> "Press"]

SessionKeys ==
    {Press(Char(c), {}) : c \in SessionChars}
    \cup {Press(Code(k), {}) : k \in {"Esc", "Tab", "Enter", "Up", "Down", "Left", "Right",
                                       "Backspace", "Delete"}}
    \cup {Press(Code("Enter"), {"CONTROL"}), Press(Char("c"), {"CONTROL"}),
          [code |-> Code("Tab"), modifiers |-> {}, kind |-> "Release"]}

\* the memos table when the session starts
StoredRow(n, content) == [created_at |-> now(n), content |-> content]
SessionDbs == {<<>>, <<StoredRow(2, <<"q", "\n", "/">>), StoredRow(1, <<"Q">>)>>}

TuiState ==
    [search |-> search, input |-> input, history |-> history,
     all_history |-> all_history, focus |-> focus, history_index |-> history_index]

Init ==
    /\ db \in SessionDbs
    /\ term = TerminalInLoop(TRUE)
    /\ LET st == TuiState_new(fetch_memos(db, TRUE).memos)
       IN  /\ search = st.search
           /\ input = st.input
           /\ history = st.history
           /\ all_history = st.all_history
           /\ focus = st.focus
           /\ history_index = st.history_index
    /\ calls = <<>>
    /\ loop = "running"
    /\ panicked = FALSE
    /\ last = "new"
    /\ event = NoEvent
    /\ snap = None
    /\ trace = <<>>

\* the bounds of the session: the size of the draft and of the query, and the
\* number of rows the session stores
WithinSessionBounds(key, st) ==
    LET action == key_to_action(key, st.focus)
    IN  IF key.kind = "Release" \/ ~is_some(action) THEN TRUE
        ELSE IF action.some.action = "InsertChar"
        THEN IF st.focus = "Input" THEN total_chars(st.input.lines) < SessMaxChars
             ELSE IF st.focus = "Search" THEN Len(st.search.query) < SessMaxQuery
             ELSE TRUE
        ELSE IF action.some.action = "InsertNewline"
        THEN IF st.focus = "Input" THEN Len(st.input.lines) < SessMaxLines ELSE TRUE
        ELSE IF action.some.action = "SubmitInput"
        THEN Len(trace) < SessMaxSubmits
        ELSE TRUE

\* whether add_memo and fetch_memos succeed, were they called for this key: only
\* SubmitInput reaches a storage call
StorageOutcomes(key, fcs) ==
    IF key.kind # "Release" /\ key_to_action(key, fcs) = Some(Action("SubmitInput"))
    THEN BOOLEAN \X BOOLEAN
    ELSE {<<TRUE, TRUE>>}

\* Event::Key(key): handle_tui_key(db, state, key)?, break on Ok(true)
HandleKey ==
    /\ loop = "running"
    /\ term' = term
    /\ \E key \in SessionKeys :
          /\ WithinSessionBounds(key, TuiState)
          /\ \E outcome \in StorageOutcomes(key, focus) :
             \E r \in {handle_tui_key(db, TuiState, key, outcome[1], outcome[2])} :
                 /\ search' = r.state.search
                 /\ input' = r.state.input
                 /\ history' = r.state.history
                 /\ all_history' = r.state.all_history
                 /\ focus' = r.state.focus
                 /\ history_index' = r.state.history_index
                 /\ db' = r.db
                 /\ calls' = r.calls
                 /\ panicked' = (r.ret = "panic")
                 /\ loop' = CASE r.ret = "Ok(true)" -> "quit"
                              [] r.ret = "Ok(false)" -> "running"
                              [] OTHER -> "error"
                 /\ trace' = IF Len(r.db) > Len(db) THEN Append(trace, "add_memo") ELSE trace
          /\ event' = key
    /\ last' = "key"
    /\ snap' = snap

\* Event::Mouse(_) and every other event: nothing is done
MouseEvent == [code |-> [key |-> "none", ch |-> ""], modifiers |-> {}, kind |-> "Mouse"]

OtherEvent ==
    /\ loop = "running"
    /\ term' = term
    /\ last' = "other"
    /\ event' = MouseEvent
    /\ calls' = <<>>
    /\ UNCHANGED <<input, search, history, all_history, focus, history_index,
                   db, loop, panicked, snap, trace>>

\* terminal.draw, poll_event or event::read fails: the error leaves the loop
TerminalError ==
    /\ loop = "running"
    /\ term' = term
    /\ loop' = "error"
    /\ last' = "io_error"
    /\ event' = NoEvent
    /\ calls' = <<>>
    /\ UNCHANGED <<input, search, history, all_history, focus, history_index,
                   db, panicked, snap, trace>>

\* poll_event() returns false: the frame is drawn again and nothing is read
PollTimeout ==
    /\ loop = "running"
    /\ term' = term
    /\ last' = "timeout"
    /\ event' = NoEvent
    /\ calls' = <<>>
    /\ UNCHANGED <<input, search, history, all_history, focus, history_index,
                   db, loop, panicked, snap, trace>>

Next == HandleKey \/ OtherEvent \/ PollTimeout \/ TerminalError

Spec == Init /\ [][Next]_vars

----------------------------------------------------------------------------
(* Claims about the session.                                               *)

\* a key press was handled in this step, and the action it was mapped to
KeyHandled == last' = "key" /\ event'.kind # "Release"
Dispatched(a) == KeyHandled /\ key_to_action(event', focus) = Some(Action(a))

\* the focus transition table of the specification
FocusAfterTab(f) ==
    CASE f = "Input" -> "History"
      [] f = "History" -> "Input"
      [] f = "Search" -> "History"

\* C6: the session starts with focus = Input; Tab takes Input -> History,
\* History -> Input and Search -> History; '/' pressed while focus = History
\* takes the focus to Search and clears the query.
C6_FocusMachine ==
    /\ Init => focus = "Input"
    /\ [][ /\ (KeyHandled /\ event'.code = Code("Tab")) => focus' = FocusAfterTab(focus)
           /\ (KeyHandled /\ event'.code = Char("/") /\ focus = "History")
                  => (focus' = "Search" /\ search'.query = <<>>)
           /\ (KeyHandled /\ event'.code = Char("/") /\ focus # "History")
                  => focus' = focus ]_vars

\* C6 witness: '/' has been pressed in the history pane (the query typed in an
\* earlier search is gone), with the whole history listed again.
C6_Witness ==
    /\ last = "key"
    /\ event = Press(Char("/"), {})
    /\ focus = "Search"
    /\ search.query = <<>>
    /\ Len(history) = 2
    /\ input.lines = <<<<"/">>, <<>>>>

\* lines.join("\n"), written from the last line backwards
RECURSIVE JoinedByNewline(_)
JoinedByNewline(ls) ==
    IF Len(ls) = 0 THEN <<>>
    ELSE IF Len(ls) = 1 THEN ls[1]
    ELSE JoinedByNewline(SubSeq(ls, 1, Len(ls) - 1)) \o <<"\n">> \o ls[Len(ls)]

AllOk(cs) == \A i \in 1..Len(cs) : cs[i].ok

\* C7: SubmitInput with focus = Input, a non-empty buffer and a storage that
\* succeeds makes exactly one add_memo call with the lines joined by "\n", then
\* exactly one fetch_memos call; afterwards the buffer is empty and the full
\* history is the fetched list.  The buffer is cleared by a submit only after
\* both calls succeeded.
C7_SubmitSuccess ==
    [][ /\ (Dispatched("SubmitInput") /\ focus = "Input" /\ ~is_empty(input) /\ AllOk(calls'))
            => /\ Len(calls') = 2
               /\ calls'[1].fn = "add_memo"
               /\ calls'[1].content = JoinedByNewline(input.lines)
               /\ calls'[2].fn = "fetch_memos"
               /\ input' = InputState_new
               /\ all_history' = calls'[2].memos
               /\ loop' = "running"
        /\ (Dispatched("SubmitInput") /\ input' # input)
            => (Len(calls') = 2 /\ AllOk(calls')) ]_vars

\* C7 witness: a two-line draft has been submitted and stored; the buffer is
\* empty and the history shows the new memo first.
C7_Witness ==
    /\ last = "key"
    /\ Len(calls) = 2
    /\ AllOk(calls)
    /\ calls[1].content = <<"q", "\n">>
    /\ input = InputState_new
    /\ Len(all_history) = 3
    /\ all_history[1][2] = <<"q", "\n">>
    /\ all_history = calls[2].memos

AddFailed(cs) == Len(cs) >= 1 /\ cs[1].fn = "add_memo" /\ ~cs[1].ok
FetchFailed(cs) == Len(cs) >= 2 /\ cs[2].fn = "fetch_memos" /\ ~cs[2].ok

\* C8: when the add_memo call of a SubmitInput fails, the error reaches the
\* session loop, the buffer (lines and cursor) is as before the submit and
\* fetch_memos is not called.
C8_InsertFailure ==
    [][ (KeyHandled /\ AddFailed(calls'))
            => /\ loop' = "error"
               /\ input'.lines = input.lines
               /\ input'.cursor = input.cursor
               /\ Len(calls') = 1 ]_vars

\* C8 witness: the add_memo call for a two-line draft has failed; the draft is
\* still in the buffer.
C8_Witness ==
    /\ AddFailed(calls)
    /\ loop = "error"
    /\ input.lines = <<<<>>, <<"/">>>>
    /\ calls[1].content = <<"\n", "/">>

\* C9: after a SubmitInput whose add_memo call failed there is no automatic
\* retry, and the session is still running with the draft in its buffer, so
\* that the user can submit it again.
C9_ManualRetry ==
    AddFailed(calls) => (Len(calls) = 1 /\ loop = "running" /\ ~is_empty(input))

\* C10: when the fetch_memos call of a SubmitInput fails (after add_memo
\* succeeded), the error propagates and buffer, query, full history, filtered
\* history and selection are as before the submit.
C10_FetchFailure ==
    [][ (KeyHandled /\ FetchFailed(calls'))
            => /\ loop' = "error"
               /\ input' = input
               /\ search' = search
               /\ all_history' = all_history
               /\ history' = history
               /\ history_index' = history_index ]_vars

\* C10 witness: the re-fetch after a stored submission has failed while a
\* search query was filtering a non-empty history.
C10_Witness ==
    /\ FetchFailed(calls)
    /\ calls[1].ok
    /\ loop = "error"
    /\ ~is_empty(input)
    /\ search.query = <<"/">>
    /\ Len(history) = 1
    /\ Len(all_history) = 2
    /\ Len(db) = 3

----------------------------------------------------------------------------
(* One key event delivered to handle_tui_key in any state of the session:  *)
(* the key mapping and the dispatch as functions of (key, state).          *)

\* the key codes and modifiers a terminal reports
KeyChars == {"q", "Q", "/", "j", "k", "c", "m", "a", "\n", "\r"}
KeyCodes ==
    {Char(c) : c \in KeyChars}
    \cup {Code(k) : k \in {"Esc", "Tab", "Enter", "Up", "Down", "Left", "Right",
                           "Backspace", "Delete", "BackTab"}}
KeyModifiers == SUBSET {"CONTROL", "SHIFT", "SUPER"}

AllKeys ==
    {[code |-> c, modifiers |-> m, kind |-> "Press"] : c \in KeyCodes, m \in KeyModifiers}
    \cup {[code |-> c, modifiers |-> {}, kind |-> k] :
             c \in {Code("Tab"), Code("Enter"), Char("q")}, k \in {"Repeat", "Release"}}

\* drafts the user has typed: empty, one line, two lines (the cursor moved up)
KeyInputs ==
    {InputState_new,
     insert_char(InputState_new, "q"),
     move_up(insert_char(newline(insert_char(InputState_new, "q")), "/"))}

\* queries the user has typed: none, one filtering, one matching nothing
KeyQueries == {<<>>, <<"/">>, <<"k">>}

\* the selections the history pane can show for a filtered list: any entry
\* after navigation, the first one while the search pane has the focus
KeySelections(fcs, filtered) ==
    IF filtered = <<>> THEN {None}
    ELSE IF fcs = "Search" THEN {Some(0)}
    ELSE {Some(i) : i \in 0..(Len(filtered) - 1)}

\* the memos table: empty, two rows, three rows
KeyDbs ==
    SessionDbs
    \cup {<<StoredRow(3, <<"k">>), StoredRow(2, <<"q", "/">>), StoredRow(1, <<"/", "Q">>)>>}

InitKey ==
    /\ db \in KeyDbs
    /\ term \in SessionTerminals
    /\ focus \in {"Input", "Search", "History"}
    /\ input \in KeyInputs
    /\ \E q \in KeyQueries :
          LET st == apply_search([TuiState_new(fetch_memos(db, TRUE).memos)
                                     EXCEPT !.search.query = q])
          IN  /\ search = st.search
              /\ history = st.history
              /\ all_history = st.all_history
              /\ history_index \in KeySelections(focus, st.history)
    /\ calls = <<>>
    /\ loop = "running"
    /\ panicked = FALSE
    /\ last = "new"
    /\ event = NoEvent
    /\ snap = Some(TuiState)
    /\ trace = <<>>

\* Event::Key(key) with any key: handle_tui_key(db, state, key)?
DeliverKey ==
    /\ loop = "running"
    /\ term' = term
    /\ last = "new"
    /\ \E key \in AllKeys :
          /\ \E outcome \in StorageOutcomes(key, focus) :
             \E r \in {handle_tui_key(db, TuiState, key, outcome[1], outcome[2])} :
                 /\ search' = r.state.search
                 /\ input' = r.state.input
                 /\ history' = r.state.history
                 /\ all_history' = r.state.all_history
                 /\ focus' = r.state.focus
                 /\ history_index' = r.state.history_index
                 /\ db' = r.db
                 /\ calls' = r.calls
                 /\ panicked' = (r.ret = "panic")
                 /\ loop' = CASE r.ret = "Ok(true)" -> "quit"
                              [] r.ret = "Ok(false)" -> "running"
                              [] OTHER -> "error"
          /\ event' = key
    /\ last' = "key"
    /\ UNCHANGED <<snap, trace>>

NextKey == DeliverKey

SpecKey == InitKey /\ [][NextKey]_vars

\* the state the key was delivered in / the state it left
StateUnchanged ==
    /\ input' = input /\ search' = search /\ history' = history
    /\ all_history' = all_history /\ history_index' = history_index /\ focus' = focus

\* C11: SubmitInput with the focus outside Input, or with an empty buffer,
\* makes no storage call, returns success and leaves buffer, query, full
\* history, filtered history, selection and focus unchanged; a key mapped to
\* any other action (or to none) makes no storage call.
C11_SubmitGuard ==
    [][ /\ (Dispatched("SubmitInput") /\ (focus # "Input" \/ is_empty(input)))
            => (calls' = <<>> /\ db' = db /\ loop' = "running" /\ StateUnchanged)
        /\ (last' = "key" /\ ~Dispatched("SubmitInput"))
            => (calls' = <<>> /\ db' = db) ]_vars

\* C11 witness: Ctrl+Enter was pressed in the input pane with an empty buffer
\* and stored memos; nothing was called and the state is the one before.
C11_Witness ==
    /\ last = "key"
    /\ event = Press(Code("Enter"), {"CONTROL"})
    /\ focus = "Input"
    /\ is_empty(input)
    /\ calls = <<>>
    /\ loop = "running"
    /\ Len(db) = 2
    /\ snap = Some(TuiState)

\* C12: in every state of the session, the selection is Some(i) with
\* i < Len(history) if the filtered history is non-empty, and None if it is
\* empty.
C12_SelectionValid ==
    IF history = <<>>
    THEN history_index = None
    ELSE /\ is_some(history_index)
         /\ history_index.some \in 0..(Len(history) - 1)

\* C12 witness: after a submit the history pane lists three memos and Down
\* has been pressed at the last of them.
C12_Witness ==
    /\ last = "key"
    /\ event = Press(Code("Down"), {})
    /\ focus = "History"
    /\ Len(history) = 3
    /\ history_index = Some(2)

\* the key was mapped to InsertChar(_)
DispatchedInsertChar ==
    /\ KeyHandled
    /\ LET action == key_to_action(event', focus)
       IN  IF is_some(action) THEN action.some.action = "InsertChar" ELSE FALSE

\* the step recomputed the filtered history: a query edit, a search
\* activation, or the refresh of a successful submit
FilterRecomputed ==
    \/ focus = "Search" /\ (DispatchedInsertChar \/ Dispatched("Backspace"))
    \/ Dispatched("ActivateSearch")
    \/ KeyHandled /\ Len(calls') = 2 /\ AllOk(calls')

\* C13: every recomputation of the filtered history (a char inserted into or
\* deleted from the query, a search activation, the refresh after a submit)
\* sets the selection to Some(0) if the new list is non-empty and to None
\* otherwise, whatever it was before.
C13_SelectionReset ==
    [][ FilterRecomputed
            => history_index' = IF history' = <<>> THEN None ELSE Some(0) ]_vars

\* C13 witness: '/' was pressed in the history pane while the third memo was
\* selected; the selection is the first memo again.
C13_Witness ==
    /\ last = "key"
    /\ event = Press(Char("/"), {})
    /\ snap.some.focus = "History"
    /\ snap.some.history_index = Some(2)
    /\ focus = "Search"
    /\ Len(history) = 3
    /\ history_index = Some(0)

\* C14: with focus = History and selection Some(i), Up and k are MoveUp and
\* give Some(i-1) if i > 0 and Some(0) at 0; Down and j are MoveDown and give
\* Some(i+1) if i+1 < Len(history) and leave the last index; the selection
\* never wraps and moves by at most one.
C14_NavigationClamped ==
    [][ (KeyHandled /\ focus = "History" /\ is_some(history_index))
            => LET i == history_index.some
               IN  /\ (event'.code \in {Code("Up"), Char("k")} /\ event'.modifiers = {})
                          => Dispatched("MoveUp")
                   /\ (event'.code \in {Code("Down"), Char("j")} /\ event'.modifiers = {})
                          => Dispatched("MoveDown")
                   /\ Dispatched("MoveUp")
                          => history_index' = IF i > 0 THEN Some(i - 1) ELSE Some(0)
                   /\ Dispatched("MoveDown")
                          => history_index' = IF i + 1 < Len(history) THEN Some(i + 1)
                                              ELSE Some(i)
                   /\ (Dispatched("MoveUp") \/ Dispatched("MoveDown"))
                          => /\ history' = history
                             /\ history_index'.some - i \in {-1, 0, 1} ]_vars

\* C14 witness: j was pressed on the last of three memos, and the selection
\* stayed there.
C14_Witness ==
    /\ last = "key"
    /\ event = Press(Char("j"), {})
    /\ focus = "History"
    /\ Len(history) = 3
    /\ snap.some.history_index = Some(2)
    /\ history_index = Some(2)

----------------------------------------------------------------------------
(* The search on its own: the query edited in the search pane over a       *)
(* history given to TuiState::new.                                         *)

FilterChars == {"a", "b", "B", "c", "t", "1"}

\* the example of the specification, and a history with mixed case
FilterExample ==
    << << <<"t", "1">>, <<"a", "b", "c", "d", "e", "f">> >>,
       << <<"t", "2">>, <<"x", "y", "z">> >> >>
FilterHistories ==
    {<<>>,
     FilterExample,
     << << <<"1", "T", "3">>, <<"A", "b", "C">> >>,
        << <<"1", "T", "2">>, <<"c", "a", "b">> >>,
        << <<"1", "T", "1">>, <<"a", "B", "c", "a">> >> >>}

\* the pane after '/' in the history pane of a fresh session
InitFilter ==
    /\ term \in SessionTerminals
    /\ \E hist \in FilterHistories :
          LET st == activate_search(toggle_focus(TuiState_new(hist)))
          IN  /\ db = [i \in 1..Len(hist) |-> [created_at |-> hist[i][1], content |-> hist[i][2]]]
              /\ search = st.search
              /\ input = st.input
              /\ history = st.history
              /\ all_history = st.all_history
              /\ focus = st.focus
              /\ history_index = st.history_index
    /\ calls = <<>>
    /\ loop = "running"
    /\ panicked = FALSE
    /\ last = "new"
    /\ event = NoEvent
    /\ snap = None
    /\ trace = <<>>

\* a key of the search pane handled by handle_tui_key
FilterKey(key) ==
    \E r \in {handle_tui_key(db, TuiState, key, TRUE, TRUE)} :
        /\ r.ret = "Ok(false)"
        /\ search' = r.state.search
        /\ input' = r.state.input
        /\ history' = r.state.history
        /\ all_history' = r.state.all_history
        /\ focus' = r.state.focus
        /\ history_index' = r.state.history_index
        /\ db' = r.db
        /\ calls' = r.calls
        /\ event' = key
        /\ last' = "key"
        /\ UNCHANGED <<loop, panicked, snap, trace, term>>

FilterType ==
    /\ Len(search.query) < FilterMaxQuery
    /\ \E c \in FilterChars : FilterKey(Press(Char(c), {}))

FilterErase == FilterKey(Press(Code("Backspace"), {}))

NextFilter == FilterType \/ FilterErase

SpecFilter == InitFilter /\ [][NextFilter]_vars

\* two chars that differ at most in case
CasePairs == {{"A", "a"}, {"B", "b"}, {"C", "c"}, {"T", "t"}, {"Q", "q"}}
SameLetter(a, b) == a = b \/ {a, b} \in CasePairs

\* q occurs in hay, case ignored
ContainsIgnoringCase(hay, q) ==
    \E k \in 0..(Len(hay) - Len(q)) : \A i \in 1..Len(q) : SameLetter(hay[k + i], q[i])

EntryMatches(entry, q) ==
    ContainsIgnoringCase(entry[2], q) \/ ContainsIgnoringCase(entry[1], q)

\* the filtered list the specification describes
SearchFilter(q, full) ==
    IF q = <<>> THEN full ELSE SelectSeq(full, LAMBDA entry : EntryMatches(entry, q))

\* C15: for an empty query the filtered history is the full history, same
\* order; for a non-empty query it is the sub-list, in order, of the entries
\* whose content or timestamp contains the query, case ignored.  The query
\* "abc" over [("t1","abcdef"),("t2","xyz")] yields only the first pair.
C15_FilterResult ==
    /\ history = SearchFilter(search.query, all_history)
    /\ search.query = <<>> => history = all_history
    /\ (search.query = <<"a", "b", "c">> /\ all_history = FilterExample)
           => history = <<FilterExample[1]>>

\* C15 witness: the query "aBc" typed over the mixed-case history keeps the
\* first and the third entry, in that order.
C15_Witness ==
    /\ last = "key"
    /\ search.query = <<"a", "B", "c">>
    /\ Len(all_history) = 3
    /\ history = <<all_history[1], all_history[3]>>

\* C16: in every state of the session the filtered history is the search
\* filter applied to the current query and the current full history.
C16_FilteredDerived == history = SearchFilter(search.query, all_history)

\* C16 witness: a memo was submitted and re-fetched while the query "/" was
\* filtering; of the three memos the one containing "/" is listed.
C16_Witness ==
    /\ last = "key"
    /\ Len(calls) = 2
    /\ AllOk(calls)
    /\ search.query = <<"/">>
    /\ Len(all_history) = 3
    /\ history = <<all_history[2]>>

\* the action the key of this step was mapped to
MappedAction == key_to_action(event', focus)

\* the quit keys of the specification
IsQuitKey(key, fcs) ==
    \/ key.code = Code("Esc")
    \/ key.code = Char("c") /\ key.modifiers = {"CONTROL"}
    \/ fcs = "History" /\ key.code \in {Char("q"), Char("Q")}

\* the line of the buffer with ch typed at the cursor
TypedAtCursor(s, ch) ==
    LET l == s.lines[s.cursor.line + 1]
    IN  SubSeq(l, 1, s.cursor.col) \o <<ch>> \o SubSeq(l, s.cursor.col + 1, Len(l))

\* C17: Escape (any modifiers) and Ctrl-C are Quit in every focus; q and Q
\* are Quit only when focus = History; with focus Input or Search they are
\* inserted as text and the session goes on.  Quit ends the session and
\* leaves the focus and the rest of the state unchanged.
C17_QuitKeys ==
    [][ KeyHandled
            => /\ IsQuitKey(event', focus) <=> Dispatched("Quit")
               /\ Dispatched("Quit")
                      => (loop' = "quit" /\ StateUnchanged /\ calls' = <<>> /\ db' = db)
               /\ (event'.code \in {Char("q"), Char("Q")} /\ focus = "Input")
                      => /\ loop' = "running"
                         /\ input'.lines[input.cursor.line + 1]
                                = TypedAtCursor(input, event'.code.ch)
                         /\ focus' = focus
               /\ (event'.code \in {Char("q"), Char("Q")} /\ focus = "Search")
                      => /\ loop' = "running"
                         /\ search'.query = Append(search.query, event'.code.ch)
                         /\ focus' = focus ]_vars

\* C17 witness: q was typed into the empty buffer of the input pane; it is in
\* the draft and the session is running.
C17_Witness ==
    /\ last = "key"
    /\ event = Press(Char("q"), {})
    /\ focus = "Input"
    /\ snap.some.input = InputState_new
    /\ input.lines = << <<"q">> >>
    /\ loop = "running"

\* C18: the mapping goes by priority, first match wins: the quit keys; then
\* Tab is ToggleFocus in every focus; then '/' is ActivateSearch when focus =
\* History; then Enter with Ctrl is SubmitInput in every focus; then Enter
\* without a submit modifier is InsertNewline in every focus; an arrow, j/k,
\* Backspace, Delete or InsertChar action (or none) is produced only by a key
\* none of these rules matches.
C18_MapperPriority ==
    [][ KeyHandled
            => LET code == event'.code
                   mods == event'.modifiers
                   quit == IsQuitKey(event', focus)
                   slash == focus = "History" /\ code = Char("/")
               IN  /\ quit => MappedAction = Some(Action("Quit"))
                   /\ (~quit /\ code = Code("Tab"))
                          => MappedAction = Some(Action("ToggleFocus"))
                   /\ (~quit /\ slash) => MappedAction = Some(Action("ActivateSearch"))
                   /\ (code = Code("Enter") /\ "CONTROL" \in mods)
                          => MappedAction = Some(Action("SubmitInput"))
                   /\ (code = Code("Enter") /\ mods \cap {"CONTROL", "SUPER"} = {})
                          => MappedAction = Some(Action("InsertNewline"))
                   /\ (\/ MappedAction = None
                       \/ MappedAction.some.action
                              \in {"MoveUp", "MoveDown", "MoveLeft", "MoveRight",
                                    "Backspace", "Delete", "InsertChar"})
                          => (~quit /\ ~slash /\ code \notin {Code("Tab"), Code("Enter")}) ]_vars

\* C18 witness: Ctrl+Enter in the input pane with a draft was mapped to
\* SubmitInput (the storage was called), not to InsertNewline.
C18_Witness ==
    /\ last = "key"
    /\ event = Press(Code("Enter"), {"CONTROL"})
    /\ snap.some.focus = "Input"
    /\ Len(calls) = 2
    /\ Len(input.lines) = 1

\* C19: Enter with the SUPER modifier (Cmd+Enter), pressed with focus = Input
\* and a non-empty buffer, is SubmitInput as Ctrl+Enter is: the draft is
\* handed to the storage and no newline is inserted.
C19_CmdEnterSubmits ==
    [][ (/\ KeyHandled
         /\ event'.code = Code("Enter")
         /\ event'.modifiers = {"SUPER"}
         /\ focus = "Input"
         /\ ~is_empty(input))
            => /\ Dispatched("SubmitInput")
               /\ calls' # <<>>
               /\ Len(input'.lines) <= Len(input.lines) ]_vars

\* a submit combo: a submit code with the Ctrl modifier
IsSubmitCombo(key) ==
    /\ "CONTROL" \in key.modifiers
    /\ key.code \in {Code("Enter"), Char("\n"), Char("\r"), Char("m"), Char("j")}

\* the char keys with a meaning in the history pane, as the claim lists them
HistoryCharKeys(key) ==
    \/ key.code \in {Char("q"), Char("Q"), Char("/"), Char("j"), Char("k")}
    \/ key.code = Char("c") /\ key.modifiers = {"CONTROL"}
    \/ IsSubmitCombo(key)

\* no char key changes the buffer or the query in the history pane, but '/'
\* clearing the query
HistoryKeepsText ==
    /\ input' = input
    /\ search' # search => (event'.code = Char("/") /\ search'.query = <<>>)

\* C20 as stated: while focus = History, a char key that is not a quit key
\* (q, Q, Ctrl-C), '/', j, k or a submit combo produces no action, and no
\* char key changes the buffer or the query (only '/' clears the query).
C20_HistoryNoAction ==
    [][ (KeyHandled /\ focus = "History" /\ event'.code.key = "Char")
            => /\ ~HistoryCharKeys(event') => MappedAction = None
               /\ HistoryKeepsText ]_vars

\* C20, amended: while focus = History, a char key that is not a quit key
\* (q, Q, Ctrl-C), '/', j, k, a submit combo or a newline char ('\n', '\r',
\* which is InsertNewline and does nothing outside the input pane) produces
\* no action, and no char key changes the buffer or the query (only '/'
\* clears the query).
C20_HistoryIgnoresText ==
    [][ (KeyHandled /\ focus = "History" /\ event'.code.key = "Char")
            => /\ (~HistoryCharKeys(event') /\ event'.code \notin {Char("\n"), Char("\r")})
                      => MappedAction = None
               /\ event'.code \in {Char("\n"), Char("\r")} => StateUnchanged
               /\ HistoryKeepsText ]_vars

\* C20 witness: a was typed in the history pane over a draft and a query;
\* nothing changed.
C20_Witness ==
    /\ last = "key"
    /\ event = Press(Char("a"), {})
    /\ focus = "History"
    /\ ~is_empty(input)
    /\ search.query = <<"/">>
    /\ snap = Some(TuiState)

\* C21: a key event of kind Release produces no action, does not end the
\* session and leaves the whole state unchanged (a press followed by its
\* release has the effect of the press alone); mouse and other non-key
\* events and poll timeouts, each with its render pass, leave the state
\* unchanged as well.
C21_ReleaseIgnored ==
    [][ (\/ last' = "key" /\ event'.kind = "Release"
         \/ last' \in {"other", "timeout"})
            => (StateUnchanged /\ db' = db /\ calls' = <<>> /\ loop' = loop) ]_vars

\* C21 witness: Tab was pressed in a fresh session and then released; the
\* focus is the one the press gave.
C21_Witness ==
    /\ last = "key"
    /\ event.kind = "Release"
    /\ event.code = Code("Tab")
    /\ focus = "History"
    /\ input = InputState_new
    /\ search.query = <<>>
    /\ loop = "running"

\* C26: after the initial fetch the full history changes only by a
\* successful SubmitInput, and then it is exactly the list fetch_memos
\* returned; every other step leaves it unchanged.
C26_FullFromStorage ==
    /\ Init => all_history = fetch_memos(db, TRUE).memos
    /\ [][ /\ (all_history' # all_history)
                  => (Dispatched("SubmitInput") /\ Len(calls') = 2 /\ AllOk(calls'))
           /\ (KeyHandled /\ Len(calls') = 2 /\ AllOk(calls'))
                  => /\ calls'[2].fn = "fetch_memos"
                     /\ all_history' = calls'[2].memos
                     /\ all_history' = fetch_memos(db', TRUE).memos ]_vars

\* C26 witness: the first memo of an empty table was submitted; the full
\* history is the one row the re-fetch returned.
C26_Witness ==
    /\ last = "key"
    /\ Len(calls) = 2
    /\ AllOk(calls)
    /\ Len(db) = 1
    /\ all_history = calls[2].memos
    /\ all_history = << <<db[1].created_at, db[1].content>> >>

\* a Quit key has been delivered / the session loop has ended by Quit
QuitDelivered == last = "key" /\ event.kind # "Release" /\ IsQuitKey(event, focus)
Terminated == loop = "quit"

\* C27: the session loop ends exactly when a key maps to Quit or an error
\* propagates; a Quit key ends it from every state, so once a Quit key is
\* delivered the session terminates; no other action returns the stop
\* result.
C27_LoopTermination ==
    /\ [][ /\ loop' # loop => loop = "running"
           /\ loop' = "quit" => Dispatched("Quit")
           /\ (KeyHandled /\ IsQuitKey(event', focus)) => loop' = "quit"
           /\ (KeyHandled /\ ~Dispatched("Quit")) => loop' # "quit"
           /\ (loop = "running" /\ loop' = "error")
                  => \/ last' = "io_error"
                     \/ KeyHandled /\ \E i \in 1..Len(calls') : ~calls'[i].ok ]_vars
    /\ QuitDelivered ~> Terminated

\* C27 witness: q was pressed in the history pane with a draft and a query in
\* place, and the loop has ended.
C27_Witness ==
    /\ last = "key"
    /\ event = Press(Char("q"), {})
    /\ focus = "History"
    /\ ~is_empty(input)
    /\ search.query # <<>>
    /\ loop = "quit"

----------------------------------------------------------------------------
(* apply_action on its own: any Action dispatched in any state of the      *)
(* session, whatever key_to_action would map to it.                        *)

AllActions ==
    {Action(a) : a \in {"Quit", "ToggleFocus", "ActivateSearch", "SubmitInput",
                        "InsertNewline", "MoveUp", "MoveDown", "MoveLeft", "MoveRight",
                        "Backspace", "Delete"}}
    \cup {InsertCharAction(c) : c \in SessionChars}

\* the action dispatched in a step, kept in event
ActionEvent(action) ==
    [code |-> [key |-> action.action, ch |-> action.ch], modifiers |-> {}, kind |-> "Action"]

DispatchAction ==
    /\ loop = "running"
    /\ term' = term
    /\ last = "new"
    /\ \E action \in AllActions :
       \E outcome \in IF action = Action("SubmitInput")
                       THEN BOOLEAN \X BOOLEAN ELSE {<<TRUE, TRUE>>} :
       \E r \in {apply_action(db, TuiState, action, outcome[1], outcome[2])} :
           /\ search' = r.state.search
           /\ input' = r.state.input
           /\ history' = r.state.history
           /\ all_history' = r.state.all_history
           /\ focus' = r.state.focus
           /\ history_index' = r.state.history_index
           /\ db' = r.db
           /\ calls' = r.calls
           /\ panicked' = (r.ret = "panic")
           /\ loop' = CASE r.ret = "Ok(true)" -> "quit"
                        [] r.ret = "Ok(false)" -> "running"
                        [] OTHER -> "error"
           /\ event' = ActionEvent(action)
    /\ last' = "action"
    /\ UNCHANGED <<snap, trace>>

NextDispatch == DispatchAction

SpecDispatch == InitKey /\ [][NextDispatch]_vars

\* the action applied in this step is one of the named ones
Applied(names) == last' = "action" /\ event'.code.key \in names

\* what a step leaves alone
BufferOnly ==
    /\ search' = search /\ all_history' = all_history /\ history' = history
    /\ history_index' = history_index /\ focus' = focus
QueryOnly == input' = input /\ all_history' = all_history /\ focus' = focus
SelectionOnly ==
    /\ input' = input /\ search' = search /\ all_history' = all_history
    /\ history' = history /\ focus' = focus

\* C22: with focus = Input, InsertChar, Backspace, Delete, InsertNewline and
\* the four moves change only the buffer; with focus = Search, InsertChar and
\* Backspace change only query, filtered history and selection, while
\* InsertNewline, Delete and the moves change nothing; with focus = History,
\* MoveUp and MoveDown change only the selection, and InsertChar, Backspace,
\* InsertNewline, MoveLeft and MoveRight change nothing.
C22_RoutingByFocus ==
    [][ /\ (focus = "Input" /\ Applied({"InsertChar", "Backspace", "Delete", "InsertNewline",
                                         "MoveUp", "MoveDown", "MoveLeft", "MoveRight"}))
               => BufferOnly
        /\ (focus = "Input" /\ Applied({"InsertChar", "InsertNewline"}))
               => input' # input
        /\ (focus = "Search" /\ Applied({"InsertChar", "Backspace"}))
               => QueryOnly
        /\ (focus = "Search" /\ Applied({"InsertChar"}))
               => search'.query = Append(search.query, event'.code.ch)
        /\ (focus = "Search" /\ Applied({"InsertNewline", "Delete", "MoveUp", "MoveDown",
                                          "MoveLeft", "MoveRight"}))
               => StateUnchanged
        /\ (focus = "History" /\ Applied({"MoveUp", "MoveDown"}))
               => SelectionOnly
        /\ (focus = "History" /\ Applied({"InsertChar", "Backspace", "InsertNewline",
                                           "MoveLeft", "MoveRight"}))
               => StateUnchanged ]_vars

\* C22 witness: Backspace was dispatched in the search pane; the query lost
\* its char, the whole history is listed and the draft is as it was.
C22_Witness ==
    /\ last = "action"
    /\ event = ActionEvent(Action("Backspace"))
    /\ focus = "Search"
    /\ snap.some.search.query = <<"/">>
    /\ search.query = <<>>
    /\ Len(history) > Len(snap.some.history)
    /\ ~is_empty(input)
    /\ input = snap.some.input

----------------------------------------------------------------------------
(* One operation applied to a valid buffer: any lines, the cursor anywhere *)
(* in them, the preferred column a vertical move can have left.            *)

EditStrings == SeqsUpTo(BufChars, EditMaxLen)

\* move_up / move_down leave Some(target) with col = min(target, line length)
EditPreferred(len, c) ==
    {None} \cup {Some(k) : k \in {t \in c..EditMaxLen : min(t, len) = c}}

InitEdit ==
    /\ \E n \in 1..EditMaxLines :
       \E ls \in [1..n -> EditStrings] :
       \E l \in 0..(n - 1) :
       \E c \in 0..Len(ls[l + 1]) :
       \E p \in EditPreferred(Len(ls[l + 1]), c) :
           input = [lines |-> ls, status |-> None,
                    cursor |-> [line |-> l, col |-> c, preferred_col |-> p]]
    /\ snap = Some(input)
    /\ panicked = FALSE
    /\ last = "new"
    /\ trace = <<>>
    /\ SessionIdle

NextEdit == last = "new" /\ NextOps

SpecEdit == InitEdit /\ [][NextEdit]_vars

\* a sequence without its k-th element, and with x put before its k-th
WithoutAt(q, k) == SubSeq(q, 1, k - 1) \o SubSeq(q, k + 1, Len(q))
WithAt(q, k, x) == SubSeq(q, 1, k - 1) \o <<x>> \o SubSeq(q, k, Len(q))

\* the number of chars of the text before line l (0-based), line breaks included
RECURSIVE TextOffset(_, _)
TextOffset(ls, l) == IF l = 0 THEN 0 ELSE TextOffset(ls, l - 1) + Len(ls[l]) + 1

\* the buffer before the operation, and where its cursor was
Before == snap.some
BeforeLine == Before.lines[Before.cursor.line + 1]

\* C28: backspace with col > 0 removes exactly the char before the cursor on
\* the current line and moves the cursor one column left; with col = 0 and
\* line > 0 it merges the current line onto the end of the previous one (one
\* line less, the text loses exactly that line break) and puts the cursor on
\* the previous line at its former length; at (0,0) text and cursor are
\* unchanged.
C28_Backspace ==
    last = "backspace" =>
        LET l == Before.cursor.line
            c == Before.cursor.col
        IN  /\ ~panicked
            /\ c > 0 =>
                   /\ input.lines = [Before.lines EXCEPT ![l + 1] = WithoutAt(BeforeLine, c)]
                   /\ input.cursor.line = l
                   /\ input.cursor.col = c - 1
            /\ (c = 0 /\ l > 0) =>
                   /\ Len(input.lines) = Len(Before.lines) - 1
                   /\ input.lines = SubSeq(Before.lines, 1, l - 1)
                                        \o <<Before.lines[l] \o BeforeLine>>
                                        \o SubSeq(Before.lines, l + 2, Len(Before.lines))
                   /\ JoinedByNewline(input.lines)
                          = WithoutAt(JoinedByNewline(Before.lines), TextOffset(Before.lines, l))
                   /\ input.cursor.line = l - 1
                   /\ input.cursor.col = Len(Before.lines[l])
            /\ (c = 0 /\ l = 0) =>
                   /\ input.lines = Before.lines
                   /\ input.cursor = Before.cursor

\* C28 witness: backspace at the start of the third line, after a line ending
\* in a multi-byte char; the two lines are one and the cursor is between them.
C28_Witness ==
    /\ last = "backspace"
    /\ Before.lines = << <<"a">>, <<"a", "U+4E2D">>, <<"U+4E2D", "a">> >>
    /\ Before.cursor.line = 2
    /\ Before.cursor.col = 0
    /\ input.lines = << <<"a">>, <<"a", "U+4E2D", "U+4E2D", "a">> >>
    /\ input.cursor.line = 1
    /\ input.cursor.col = 2

\* C29: delete_char with the cursor before the end of its line removes
\* exactly the char at the cursor; at the end of a line that has a next line
\* it appends the next line to the current one (one line less); at the end of
\* the last line it does nothing.  The cursor (line, col) is unchanged in all
\* three cases.
C29_DeleteForward ==
    last = "delete_char" =>
        LET l == Before.cursor.line
            c == Before.cursor.col
            n == Len(Before.lines)
        IN  /\ ~panicked
            /\ input.cursor.line = l
            /\ input.cursor.col = c
            /\ c < Len(BeforeLine) =>
                   input.lines = [Before.lines EXCEPT ![l + 1] = WithoutAt(BeforeLine, c + 1)]
            /\ (c = Len(BeforeLine) /\ l + 1 < n) =>
                   /\ Len(input.lines) = n - 1
                   /\ input.lines = SubSeq(Before.lines, 1, l)
                                        \o <<BeforeLine \o Before.lines[l + 2]>>
                                        \o SubSeq(Before.lines, l + 3, n)
            /\ (c = Len(BeforeLine) /\ l + 1 = n) => input.lines = Before.lines

\* C29 witness: delete_char at the end of the first of three lines; the second
\* line has joined it and the cursor has not moved.
C29_Witness ==
    /\ last = "delete_char"
    /\ Before.lines = << <<"U+4E2D">>, <<"a", "a">>, <<"a">> >>
    /\ Before.cursor.line = 0
    /\ Before.cursor.col = 1
    /\ input.lines = << <<"U+4E2D", "a", "a">>, <<"a">> >>
    /\ input.cursor.line = 0
    /\ input.cursor.col = 1

\* C30: newline splits the cursor's line at the cursor column into a head,
\* kept on the current line, and a tail, inserted as a new line right after
\* it; there is exactly one line more, the other lines keep content and
\* order, the cursor is (old line + 1, 0) and the text is the old text with
\* one "\n" inserted at the cursor.
C30_Newline ==
    last = "newline" =>
        LET l == Before.cursor.line
            c == Before.cursor.col
            n == Len(Before.lines)
        IN  /\ ~panicked
            /\ Len(input.lines) = n + 1
            /\ input.lines[l + 1] = SubSeq(BeforeLine, 1, c)
            /\ input.lines[l + 2] = SubSeq(BeforeLine, c + 1, Len(BeforeLine))
            /\ \A i \in 1..l : input.lines[i] = Before.lines[i]
            /\ \A i \in (l + 2)..n : input.lines[i + 1] = Before.lines[i]
            /\ input.cursor.line = l + 1
            /\ input.cursor.col = 0
            /\ JoinedByNewline(input.lines)
                   = WithAt(JoinedByNewline(Before.lines),
                            TextOffset(Before.lines, l) + c + 1, "\n")

\* C30 witness: newline inside the first of two lines, between a multi-byte
\* char and an ASCII char; the second line has moved down.
C30_Witness ==
    /\ last = "newline"
    /\ Before.lines = << <<"U+4E2D", "a">>, <<"a", "a">> >>
    /\ Before.cursor.line = 0
    /\ Before.cursor.col = 1
    /\ input.lines = << <<"U+4E2D">>, <<"a">>, <<"a", "a">> >>
    /\ input.cursor.line = 1
    /\ input.cursor.col = 0

----------------------------------------------------------------------------
(* The cursor projection (src/tui/state.rs): the visual (row, col) of the  *)
(* cursor in the wrapped text of the input pane.                           *)

\* UnicodeWidthChar::width(ch).unwrap_or(0)
char_width(ch) ==
    CASE ch = "U+4E2D" -> 2
      [] ch = "U+0301" -> 0
      [] OTHER -> 1

\* UnicodeWidthStr::width(line): the sum of the widths of these chars
RECURSIVE str_width(_)
str_width(line) == IF line = <<>> THEN 0 ELSE char_width(Head(line)) + str_width(Tail(line))

\* value.chars().take(char_index).map(width).sum()
width_up_to_char(value, char_index) == str_width(SubSeq(value, 1, min(char_index, Len(value))))

\* rows_before after the loop over lines.iter().take(cursor_line)
RECURSIVE rows_before_floor(_, _, _)
rows_before_floor(lines, cursor_line, content_width) ==
    IF cursor_line = 0 \/ lines = <<>> THEN 0
    ELSE LET line_width == str_width(Head(lines))
         IN  line_width \div content_width + 1
                 + rows_before_floor(Tail(lines), cursor_line - 1, content_width)
RECURSIVE rows_before(_, _, _)
rows_before(lines, cursor_line, content_width) ==
    IF cursor_line = 0 \/ lines = <<>> THEN 0
    ELSE LET line_width == str_width(Head(lines))
             wrapped_rows == IF line_width = 0 THEN 0
                             ELSE (line_width - 1) \div content_width
         IN  wrapped_rows + 1 + rows_before(Tail(lines), cursor_line - 1, content_width)

\* wrapped_cursor_position: [row, col]; a content_width of 0 divides by zero
wrapped_cursor_position(lines, cursor, content_width) ==
    IF content_width = 0 THEN PANIC ELSE
    LET cursor_line == min(cursor.line, saturating_sub(Len(lines), 1))
        line == IF cursor_line < Len(lines) THEN lines[cursor_line + 1] ELSE <<>>
        cursor_col == min(cursor.col, Len(line))
        prefix_width == width_up_to_char(line, cursor_col)
        row_in_line == prefix_width \div content_width
        col_in_line == prefix_width % content_width
    IN  [row |-> saturating_add(rows_before(lines, cursor_line, content_width), row_in_line),
         col |-> col_in_line]

ProjChars == {"a", "U+4E2D", "U+0301"}
ProjStrings == SeqsUpTo(ProjChars, ProjMaxLen)

\* the example of the specification: a line of 25 cells, the cursor after 22
ProjExample ==
    [lines |-> << [i \in 1..25 |-> "a"] >>, status |-> None,
     cursor |-> [line |-> 0, col |-> 22, preferred_col |-> None]]
ProjWidths == (1..ProjMaxWidth) \cup {10}

\* a valid buffer and the content width of the pane it is drawn in
InitProjector ==
    /\ \/ \E n \in 1..ProjMaxLines :
          \E ls \in [1..n -> ProjStrings] :
          \E l \in 0..(n - 1) :
          \E c \in 0..Len(ls[l + 1]) :
              input = [lines |-> ls, status |-> None,
                       cursor |-> [line |-> l, col |-> c, preferred_col |-> None]]
       \/ input = ProjExample
    /\ \E w \in ProjWidths : snap = Some([content_width |-> w, position |-> None])
    /\ panicked = FALSE
    /\ last = "new"
    /\ trace = <<>>
    /\ SessionIdle

\* the projection computed for one render pass
Project ==
    /\ last = "new"
    /\ \E r \in {wrapped_cursor_position(input.lines, input.cursor, snap.some.content_width)} :
          IF is_panic(r)
          THEN panicked' = TRUE /\ snap' = snap
          ELSE panicked' = FALSE /\ snap' = Some([snap.some EXCEPT !.position = Some(r)])
    /\ last' = "project"
    /\ UNCHANGED <<input, trace>>
    /\ UNCHANGED session_vars

NextProjector == Project

SpecProjector == InitProjector /\ [][NextProjector]_vars

\* the display width of a text, and the visual rows a line of that width takes
RECURSIVE DisplayWidth(_)
DisplayWidth(str) ==
    IF Len(str) = 0 THEN 0
    ELSE DisplayWidth(SubSeq(str, 1, Len(str) - 1)) + char_width(str[Len(str)])
VisualRows(width, W) ==
    LET ceil == (width + W - 1) \div W
    IN  IF ceil > 1 THEN ceil ELSE 1

\* the rows taken by the first l lines
RECURSIVE RowsAbove(_, _, _)
RowsAbove(ls, l, W) ==
    IF l = 0 THEN 0
    ELSE RowsAbove(ls, l - 1, W) + VisualRows(DisplayWidth(ls[l]), W)

\* C23: for a buffer and a wrap width W >= 1 the projected position is
\* (row, col) with row = the sum over the lines before the cursor line of
\* max(1, ceil(width / W)), plus prefix_width div W, and col = prefix_width
\* mod W, prefix_width being the display width of the cursor line's text
\* before the cursor.  W = 10, a line of width 25 and the cursor at offset 22
\* give (2, 2).
C23_CursorProjection ==
    last = "project" =>
        LET W == snap.some.content_width
            l == input.cursor.line
            prefix_width == DisplayWidth(SubSeq(input.lines[l + 1], 1, input.cursor.col))
        IN  /\ ~panicked
            /\ snap.some.position
                   = Some([row |-> RowsAbove(input.lines, l, W) + prefix_width \div W,
                           col |-> prefix_width % W])
            /\ (input = ProjExample /\ W = 10) => snap.some.position = Some([row |-> 2, col |-> 2])

\* C23 witness: the example has been projected.
C23_Witness ==
    /\ last = "project"
    /\ snap.some.content_width = 10
    /\ DisplayWidth(input.lines[1]) = 25
    /\ input.cursor.col = 22
    /\ snap.some.position = Some([row |-> 2, col |-> 2])

----------------------------------------------------------------------------
(* run_tui from its entry to its return: the terminal is set up, the       *)
(* history is fetched, the loop runs, the terminal is restored.            *)

\* the keys delivered to the loop of a whole run
RunKeys ==
    {Press(Code("Esc"), {}), Press(Code("Tab"), {}), Press(Char("q"), {}),
     Press(Code("Enter"), {"CONTROL"})}

\* the teardown calls restore_terminal makes, any of which can fail
TeardownCalls(keyboard_enhanced) ==
    {"disable_raw_mode", "LeaveAlternateScreen", "show_cursor"}
    \cup (IF keyboard_enhanced THEN {"PopKeyboardEnhancementFlags"} ELSE {})

\* run_tui is entered: nothing of the session exists yet
InitRun ==
    /\ db \in SessionDbs
    /\ term = TerminalStart
    /\ input = InputState_new
    /\ search = [query |-> <<>>]
    /\ history = <<>>
    /\ all_history = <<>>
    /\ focus = "Input"
    /\ history_index = None
    /\ calls = <<>>
    /\ loop = "not_started"
    /\ panicked = FALSE
    /\ last = "new"
    /\ event = NoEvent
    /\ snap = None
    /\ trace = <<>>

\* let mut guard = TerminalGuard::new()?;
RunSetup ==
    /\ term.pc = "setup"
    /\ \E enhanced \in BOOLEAN, fail_at \in SetupCalls :
       \E r \in {TerminalGuard_new(term, enhanced, fail_at)} :
           term' = IF is_ok(r.ret)
                   THEN [r.term EXCEPT !.pc = "fetch"]
                   ELSE [r.term EXCEPT !.pc = "returned", !.result = Some(r.ret)]
    /\ last' = "setup"
    /\ UNCHANGED <<input, search, history, all_history, focus, history_index,
                   db, calls, loop, panicked, event, snap, trace>>

\* let mut state = TuiState::new(crate::db::fetch_memos(db, None)?);
\* the early return drops the guard
RunFetch ==
    /\ term.pc = "fetch"
    /\ \E fetch_ok \in BOOLEAN :
       \E r \in {fetch_memos(db, fetch_ok)} :
           /\ calls' = <<FetchCall(r)>>
           /\ IF r.ok
              THEN LET st == TuiState_new(r.memos)
                   IN  /\ search' = st.search
                       /\ input' = st.input
                       /\ history' = st.history
                       /\ all_history' = st.all_history
                       /\ focus' = st.focus
                       /\ history_index' = st.history_index
                       /\ loop' = "running"
                       /\ term' = [term EXCEPT !.pc = "loop"]
              ELSE /\ \E failed \in SUBSET TeardownCalls(term.keyboard_enhanced) :
                          term' = [TerminalGuard_drop(term, failed)
                                       EXCEPT !.pc = "returned",
                                              !.result = Some(Err("fetch_memos"))]
                   /\ UNCHANGED <<input, search, history, all_history, focus,
                                  history_index, loop>>
    /\ last' = "fetch"
    /\ UNCHANGED <<db, panicked, event, snap, trace>>

\* Event::Key(key) in the loop of a whole run
RunKey ==
    /\ term.pc = "loop"
    /\ loop = "running"
    /\ term' = term
    /\ \E key \in RunKeys :
          /\ WithinSessionBounds(key, TuiState)
          /\ \E outcome \in StorageOutcomes(key, focus) :
             \E r \in {handle_tui_key(db, TuiState, key, outcome[1], outcome[2])} :
                 /\ search' = r.state.search
                 /\ input' = r.state.input
                 /\ history' = r.state.history
                 /\ all_history' = r.state.all_history
                 /\ focus' = r.state.focus
                 /\ history_index' = r.state.history_index
                 /\ db' = r.db
                 /\ calls' = r.calls
                 /\ panicked' = (r.ret = "panic")
                 /\ loop' = CASE r.ret = "Ok(true)" -> "quit"
                              [] r.ret = "Ok(false)" -> "running"
                              [] OTHER -> "error"
                 /\ trace' = IF Len(r.db) > Len(db) THEN Append(trace, "add_memo") ELSE trace
          /\ event' = key
    /\ last' = "key"
    /\ snap' = snap

\* the value run_tui_loop returned
LoopResult == IF loop = "quit" THEN Ok ELSE Err("run_tui_loop")

\* let _ = drain_pending_events(); let restore_result = guard.restore();
\* result.and(restore_result), and the guard is dropped
RunReturn ==
    /\ term.pc = "loop"
    /\ loop \in {"quit", "error"}
    /\ \E failed \in SUBSET TeardownCalls(term.keyboard_enhanced) :
       \E r \in {TerminalGuard_restore(term, failed)} :
           term' = [TerminalGuard_drop(r.term, failed)
                        EXCEPT !.pc = "returned",
                               !.restore_result = Some(r.ret),
                               !.result = Some(Result_and(LoopResult, r.ret))]
    /\ last' = "return"
    /\ UNCHANGED <<input, search, history, all_history, focus, history_index,
                   db, calls, loop, panicked, event, snap, trace>>

NextRun ==
    \/ RunSetup
    \/ RunFetch
    \/ RunKey
    \/ OtherEvent
    \/ PollTimeout
    \/ TerminalError
    \/ RunReturn

SpecRun == InitRun /\ [][NextRun]_vars

\* a terminal mode is still acquired
TerminalHeld == term.raw \/ term.flags \/ term.screen

Range(f) == {f[i] : i \in DOMAIN f}

\* the teardown calls of the release
ReleaseCalls == {"disable_raw_mode", "LeaveAlternateScreen", "show_cursor"}

\* C24: whenever run_tui has returned after raw mode was enabled, the release
\* steps (disable raw mode, leave the alternate screen, show the cursor) were
\* executed before the return, whatever the exit path: normal quit, failure of
\* the initial fetch, an error of the loop, a failure of a later setup call.
\* Raw mode was enabled when a mode is still held or a teardown call was made.
C24_ReleaseOnEveryExit ==
    (term.pc = "returned" /\ (TerminalHeld \/ term.cleanup # <<>>))
        => ReleaseCalls \subseteq Range(term.cleanup)

\* the teardown calls in the order of restore_terminal
TeardownOrder(keyboard_enhanced) ==
    <<"disable_raw_mode">>
    \o (IF keyboard_enhanced THEN <<"PopKeyboardEnhancementFlags">> ELSE <<>>)
    \o <<"LeaveAlternateScreen", "show_cursor">>

\* the first call of a sequence that is in a set, if any
RECURSIVE FirstIn(_, _)
FirstIn(calls_made, set) ==
    IF calls_made = <<>> THEN None
    ELSE IF Head(calls_made) \in set THEN Some(Head(calls_made))
    ELSE FirstIn(Tail(calls_made), set)

\* C25: once restore_terminal has run, every teardown call was attempted, in
\* order, whichever of them failed, and the error kept is the one of the first
\* call that failed, none when no call failed; guard.restore() returns that
\* error, or Ok.
C25_BestEffortTeardown ==
    term.cleanup # <<>> =>
        /\ term.cleanup = TeardownOrder(term.keyboard_enhanced)
        /\ term.first_error = FirstIn(term.cleanup, term.failed)
        /\ is_some(term.restore_result) =>
               term.restore_result.some =
                   (IF term.failed = {} THEN Ok
                    ELSE Err(FirstIn(term.cleanup, term.failed).some))

\* the first and the last teardown call failed, the two between were still made
C25_Witness ==
    /\ term.pc = "returned"
    /\ term.keyboard_enhanced
    /\ term.failed = {"disable_raw_mode", "show_cursor"}
    /\ term.cleanup = <<"disable_raw_mode", "PopKeyboardEnhancementFlags",
                        "LeaveAlternateScreen", "show_cursor">>
    /\ term.raw /\ ~term.flags /\ ~term.screen
    /\ term.restore_result = Some(Err("disable_raw_mode"))

----------------------------------------------------------------------------
(* Claims about the horizontal moves, under SpecEdit.                      *)

\* C31: move_left at column 0 of a line other than the first puts the cursor at
\* the end of the previous line, move_right at the end of a line other than the
\* last puts it at column 0 of the next line; at the very start (move_left) or
\* the very end (move_right) of the buffer the cursor stays; otherwise the
\* column changes by exactly one on the same line.  Both clear the preferred
\* column, and none of the four moves changes the text.
C31_HorizontalMoves ==
    LET l == Before.cursor.line
        c == Before.cursor.col
        n == Len(Before.lines)
    IN  /\ last = "move_left" =>
               /\ ~panicked
               /\ input.cursor.preferred_col = None
               /\ input.cursor.line =
                      (IF c = 0 /\ l > 0 THEN l - 1 ELSE l)
               /\ input.cursor.col =
                      (IF c > 0 THEN c - 1
                       ELSE IF l > 0 THEN Len(Before.lines[l]) ELSE 0)
        /\ last = "move_right" =>
               /\ ~panicked
               /\ input.cursor.preferred_col = None
               /\ input.cursor.line =
                      (IF c = Len(BeforeLine) /\ l + 1 < n THEN l + 1 ELSE l)
               /\ input.cursor.col =
                      (IF c < Len(BeforeLine) THEN c + 1
                       ELSE IF l + 1 < n THEN 0 ELSE c)
        /\ last \in {"move_left", "move_right", "move_up", "move_down"} =>
               /\ input.lines = Before.lines
               /\ JoinedByNewline(input.lines) = JoinedByNewline(Before.lines)

\* C31 witness: move_left from the start of the second line, with a preferred
\* column set, ends after the two chars of the first line.
C31_Witness ==
    /\ last = "move_left"
    /\ Before.lines = << <<"a", "U+4E2D">>, <<"a">> >>
    /\ Before.cursor = [line |-> 1, col |-> 0, preferred_col |-> Some(0)]
    /\ input.cursor = [line |-> 0, col |-> 2, preferred_col |-> None]

----------------------------------------------------------------------------
(* InputState::cursor_position for the input pane drawn by draw_input      *)
(* (src/tui/view.rs): the buffer and the Rect of the pane give the cell of *)
(* the terminal cursor.                                                    *)

max(a, b) == IF a >= b THEN a ELSE b

\* u16 of the Rect and of the terminal cell
U16 == 65536
as_u16(v) == v % U16

content_width_unfloored(area) == saturating_sub(area.width, 2)

\* let content_width = area.width.saturating_sub(2).max(1) as usize;
content_width(area) == max(saturating_sub(area.width, 2), 1)

\* the coordinates stay far below u16::MAX within the bounds of the panes
cursor_position(s, area) ==
    LET r == wrapped_cursor_position(s.lines, s.cursor, content_width(area))
    IN  IF is_panic(r) THEN PANIC
        ELSE [x |-> area.x + as_u16(r.col) + 1, y |-> area.y + as_u16(r.row) + 1]

Rect(x, y, width, height) == [x |-> x, y |-> y, width |-> width, height |-> height]

\* the panes: every width from 0, the heights 3 and 4, an origin off the corner
PaneAreas ==
    {Rect(x, y, w, h) : x \in 0..PaneMaxOrigin, y \in 0..PaneMaxOrigin,
                        w \in 0..PaneMaxWidth, h \in {3, 4}}

\* a valid buffer and the pane it is drawn in
InitCursor ==
    /\ \E n \in 1..ProjMaxLines :
       \E ls \in [1..n -> ProjStrings] :
       \E l \in 0..(n - 1) :
       \E c \in 0..Len(ls[l + 1]) :
           input = [lines |-> ls, status |-> None,
                    cursor |-> [line |-> l, col |-> c, preferred_col |-> None]]
    /\ \E area \in PaneAreas : snap = Some([area |-> area, position |-> None])
    /\ panicked = FALSE
    /\ last = "new"
    /\ trace = <<>>
    /\ SessionIdle

\* frame.set_cursor_position(state.input.cursor_position(area))
SetCursor ==
    /\ last = "new"
    /\ focus = "Input"
    /\ \E r \in {cursor_position(input, snap.some.area)} :
          IF is_panic(r)
          THEN panicked' = TRUE /\ snap' = snap
          ELSE panicked' = FALSE /\ snap' = Some([snap.some EXCEPT !.position = Some(r)])
    /\ last' = "cursor_position"
    /\ UNCHANGED <<input, trace>>
    /\ UNCHANGED session_vars

NextCursor == SetCursor

SpecCursor == InitCursor /\ [][NextCursor]_vars

Pane == snap.some.area

\* C32: cursor_position wraps at W = max(1, pane width - 2): the width inside
\* the two border cells when the pane is at least 3 cells wide, and 1 for the
\* widths 0, 1 and 2; W is never 0, so the projection divides by a non-zero
\* width and cursor_position returns a cell for every pane width.
C32_WrapWidth ==
    /\ \A area \in PaneAreas :
           /\ content_width(area) >= 1
           /\ content_width(area) = (IF area.width >= 3 THEN area.width - 2 ELSE 1)
    /\ last = "cursor_position" =>
           LET W == IF Pane.width >= 3 THEN Pane.width - 2 ELSE 1
               p == wrapped_cursor_position(input.lines, input.cursor, W)
           IN  /\ ~panicked
               /\ snap.some.position
                      = Some([x |-> Pane.x + p.col + 1, y |-> Pane.y + p.row + 1])

\* C32 witness: a pane of width 0 has given a cell, on the second row of the
\* pane's content since the wrap width is 1.
C32_Witness ==
    /\ last = "cursor_position"
    /\ Pane = Rect(1, 1, 0, 3)
    /\ input.lines = << <<"a", "a">> >>
    /\ input.cursor.col = 1
    /\ snap.some.position = Some([x |-> 2, y |-> 3])

----------------------------------------------------------------------------
(* Claims about SubmitInput and the focus, under SpecKey.                  *)

\* C33: whenever SubmitInput returns an error, no note of that submission has
\* been stored, and whenever a note was stored, the buffer has been cleared.
C33_SubmitAtomic ==
    [][ Dispatched("SubmitInput") =>
            /\ (loop' = "error" => db' = db)
            /\ (db' # db => is_empty(input')) ]_vars

\* C34: in every reachable state of the session is_empty() holds exactly when
\* text() is the empty string, and no add_memo call of the session has an
\* empty content.
C34_NoEmptyNote ==
    /\ is_empty(input) <=> (text(input) = <<>>)
    /\ \A i \in 1..Len(calls) : calls[i].fn = "add_memo" => calls[i].content # <<>>

\* C34 witness: a buffer of two empty lines is not empty, its text is one
\* line break, and that text was passed to add_memo.
C34_Witness ==
    /\ last = "key"
    /\ Len(calls) >= 1
    /\ calls[1].fn = "add_memo"
    /\ calls[1].content = <<"\n">>
    /\ ~AllOk(calls)
    /\ input.lines = << <<>>, <<>> >>
    /\ ~is_empty(input)

\* the key of the step was mapped to ToggleFocus or to ActivateSearch
FocusAction ==
    /\ KeyHandled
    /\ MappedAction \in {Some(Action("ToggleFocus")), Some(Action("ActivateSearch"))}

\* C35: the focus changes only through ToggleFocus (Tab) and ActivateSearch
\* ('/' in History): a key mapped to any other action (InsertChar, Backspace,
\* Delete, InsertNewline, the moves, j/k, SubmitInput whether it stores, is
\* guarded out or fails), to no action, or released, leaves the focus as it
\* was; and the focus becomes Search only from History.
C35_FocusFrame ==
    [][ last' = "key" =>
            /\ (~FocusAction => focus' = focus)
            /\ (Dispatched("SubmitInput") => focus' = focus)
            /\ ((focus' = "Search" /\ focus # "Search") => focus = "History") ]_vars

\* C35 witness: a submit from the input pane stored the draft and refreshed the
\* history, and the focus is still on the input pane.
C35_Witness ==
    /\ last = "key"
    /\ event.code = Code("Enter") /\ event.modifiers = {"CONTROL"}
    /\ Len(calls) = 2 /\ AllOk(calls)
    /\ snap.some.focus = "Input"
    /\ focus = "Input"
    /\ is_empty(input)

----------------------------------------------------------------------------
(* Claims about the projection of the cursor, under SpecProjector and      *)
(* SpecCursor.                                                             *)

\* every char of the buffer has display width 1
AllWidthOne(ls) ==
    \A i \in 1..Len(ls) : \A j \in 1..Len(ls[i]) : char_width(ls[i][j]) = 1

\* the valid cursors of a buffer
ValidCursors(ls) ==
    UNION {{[line |-> l, col |-> c, preferred_col |-> None] : c \in 0..Len(ls[l + 1])} :
              l \in 0..(Len(ls) - 1)}

\* C36: on a buffer whose chars all have display width 1 and for a wrap width
\* W >= 1, no valid cursor other than the projected one has the same visual
\* (row, col), and the projected row of a cursor on line k is less than the
\* number of visual rows taken by the lines 0..k.
C36_ProjectionInjective ==
    (last = "project" /\ AllWidthOne(input.lines)) =>
        LET W == snap.some.content_width
            l == input.cursor.line
        IN  /\ \A k \in ValidCursors(input.lines) :
                   (k.line # l \/ k.col # input.cursor.col)
                       => Some(wrapped_cursor_position(input.lines, k, W)) # snap.some.position
            /\ snap.some.position.some.row < RowsAbove(input.lines, l + 1, W)

\* C37: for every buffer and every pane at least 3 cells wide and 3 cells
\* high, the cell cursor_position returns is strictly inside the border of the
\* pane: area.x < x < area.x + area.width - 1 and
\* area.y < y < area.y + area.height - 1, however many rows the draft takes.
C37_CursorInsidePane ==
    (last = "cursor_position" /\ ~panicked /\ Pane.width >= 3 /\ Pane.height >= 3) =>
        LET p == snap.some.position.some
        IN  /\ Pane.x < p.x /\ p.x < Pane.x + Pane.width - 1
            /\ Pane.y < p.y /\ p.y < Pane.y + Pane.height - 1

----------------------------------------------------------------------------
(* Claims about the guard and the result of run_tui, under SpecRun.        *)

\* C38: once the TerminalGuard exists, run_tui returns with the teardown calls
\* made exactly once, whichever way it returns: after guard.restore() the drop
\* of the guard makes no call, a further restore() makes no call and returns
\* Ok, and when restore() is not reached (the fetch failed) the drop makes the
\* calls.
C38_CleanupOnce ==
    /\ (term.pc = "returned" /\ term.guard # "none") =>
           /\ term.guard = "dropped"
           /\ term.restored
           /\ term.cleanup = TeardownOrder(term.keyboard_enhanced)
           /\ is_some(term.restore_result) <=> loop \in {"quit", "error"}
    /\ term.restored =>
           \A failed \in SUBSET TeardownCalls(term.keyboard_enhanced) :
               /\ TerminalGuard_restore(term, failed) = [term |-> term, ret |-> Ok]
               /\ TerminalGuard_drop(term, failed).cleanup = term.cleanup

\* C38 witness: the loop ended by Quit, restore() ran the four calls and the
\* guard was dropped after it.
C38_Witness ==
    /\ term.pc = "returned"
    /\ loop = "quit"
    /\ term.guard = "dropped"
    /\ term.restored
    /\ term.restore_result = Some(Ok)
    /\ term.cleanup = <<"disable_raw_mode", "PopKeyboardEnhancementFlags",
                        "LeaveAlternateScreen", "show_cursor">>

\* C39: when the loop ended with an error, run_tui returns that error, also
\* when the teardown failed, and the teardown calls were made; when the loop
\* ended by Quit and a teardown call failed, run_tui returns the error of the
\* first call that failed; run_tui returns Ok only when the loop ended by Quit
\* and no teardown call failed.
C39_RunResult ==
    term.pc = "returned" =>
        /\ is_some(term.result)
        /\ (term.guard # "none" /\ loop = "error") =>
               /\ term.result = Some(Err("run_tui_loop"))
               /\ term.cleanup = TeardownOrder(term.keyboard_enhanced)
        /\ (loop = "quit" /\ term.failed # {}) =>
               term.result = Some(Err(FirstIn(term.cleanup, term.failed).some))
        /\ term.result = Some(Ok) <=> (loop = "quit" /\ term.failed = {})

\* C39 witness: the loop ended with an error and two teardown calls failed;
\* all four calls were made and the error returned is the one of the loop.
C39_Witness ==
    /\ term.pc = "returned"
    /\ loop = "error"
    /\ term.failed = {"disable_raw_mode", "LeaveAlternateScreen"}
    /\ term.restore_result = Some(Err("disable_raw_mode"))
    /\ Len(term.cleanup) = 4
    /\ term.result = Some(Err("run_tui_loop"))

=============================================================================
